---- MODULE Spec2Model ----
(***************************************************************************)
(* Model of the WhatAnimeShouldIWatch pipeline.                            *)
(*                                                                         *)
(* Spec: the network crawler (expand-network script, second half of        *)
(* src/pipeline/src/db.ts): option parsing, seeding, priming, the draining *)
(* loop, the per-candidate decision, discovery and the final recompute,    *)
(* over the rating store of the first half of the same file.               *)
(*                                                                         *)
(* SpecRetry: one request of an HTTP client, fetchMalPage of mal.ts or     *)
(* fetchJsonWithRetry of jikan.ts, with its retries and backoff.           *)
(*                                                                         *)
(* SpecGraph: the graph build of build-graph.ts, the in-memory             *)
(* normalization and createGraph, one pass of its loops per step, then the *)
(* compact encoding and its expansion in web/src/main.ts.                  *)
(*                                                                         *)
(* SpecCollect: the collect-mal script of jikan.ts over the rating store:  *)
(* one transaction per user, then the recompute.                           *)
(*                                                                         *)
(* SpecRatings: fetchMalRatings of mal.ts, one page per step.              *)
(*                                                                         *)
(* Strings are sequences of one-character strings so that trim,            *)
(* toLowerCase and parseInt are computed.  The scripts are sequential; one *)
(* action of the crawler is the code between two awaits of an external     *)
(* call.  Each specification keeps the variables of the other scripts at   *)
(* their idle values.                                                      *)
(***************************************************************************)
EXTENDS Integers, Sequences, FiniteSets, TLC

\* ------------------------------------------------------------------------
\* Bounds of the model
\* ------------------------------------------------------------------------
\* usernames in one page of the discovery source
MaxPageLen == 1
\* target total user count
MaxTarget == 2

\* Values of the other options of a run.
FanOuts == {1, 2}
PagesPerAnime == {0, 2}
FallbackPages == {0, 1}
MinScored == {0, 2}

Min2(a, b) == IF a < b THEN a ELSE b

\* ------------------------------------------------------------------------
\* Strings
\* ------------------------------------------------------------------------
Lower(c) == CASE c = "A" -> "a" [] c = "B" -> "b" [] OTHER -> c

RECURSIVE trimStart(_)
trimStart(s) ==
  IF s = <<>> THEN <<>>
  ELSE IF Head(s) = " " THEN trimStart(Tail(s)) ELSE s

RECURSIVE trimEnd(_)
trimEnd(s) ==
  IF s = <<>> THEN <<>>
  ELSE IF s[Len(s)] = " " THEN trimEnd(SubSeq(s, 1, Len(s) - 1)) ELSE s

trim(s) == trimEnd(trimStart(s))

toLowerCase(s) == [i \in 1..Len(s) |-> Lower(s[i])]

normalizeUsername(username) == toLowerCase(trim(username))

\* The usernames as the discovery source spells them: upper case, blanks
\* around the name, a blank entry.
RawNames ==
  { <<"A", " ">>, <<" ", "b">>, <<" ">> }

\* The comma-separated parts of the seed option: none, one seed, two seeds,
\* a blank part.
SeedLists ==
  { <<>>, << <<"A", " ">> >>, << <<" ", "b">>, <<"a">> >>, << <<" ">>, <<"a">> >> }

RECURSIVE SeqsUpTo(_, _)
SeqsUpTo(S, n) ==
  IF n = 0 THEN { <<>> }
  ELSE LET shorter == SeqsUpTo(S, n - 1)
       IN  shorter \cup { Append(q, x) : q \in { r \in shorter : Len(r) = n - 1 }, x \in S }

RECURSIVE SelectSeqNonEmpty(_)
SelectSeqNonEmpty(s) ==
  IF s = <<>> THEN <<>>
  ELSE IF Head(s) = <<>> THEN SelectSeqNonEmpty(Tail(s))
       ELSE <<Head(s)>> \o SelectSeqNonEmpty(Tail(s))

\* value.split(",").map(trim).filter(nonempty); the argument is the list of
\* comma-separated parts.
splitCsv(parts) == SelectSeqNonEmpty([i \in 1..Len(parts) |-> trim(parts[i])])

\* json.data.map(entry => entry.username.trim()).filter(nonempty)
jikanUsernames(data) == SelectSeqNonEmpty([i \in 1..Len(data) |-> trim(data[i])])

\* sha256(salt + ":" + normalized).slice(0, 24): the digest is modelled as an
\* injective tag of the hashed text.
anonymizeUsername(username, s) == <<s, normalizeUsername(username)>>

\* ------------------------------------------------------------------------
\* Numeric options
\* ------------------------------------------------------------------------
DigitChars == <<"0", "1", "2", "3", "4", "5", "6", "7", "8", "9">>
IsDigit(c) == \E d \in 1..Len(DigitChars) : DigitChars[d] = c
DigitOf(c) == (CHOOSE d \in 1..Len(DigitChars) : DigitChars[d] = c) - 1

RECURSIVE digitsPrefix(_)
digitsPrefix(s) ==
  IF s = <<>> \/ ~IsDigit(Head(s)) THEN <<>>
  ELSE <<Head(s)>> \o digitsPrefix(Tail(s))

RECURSIVE decimalValue(_)
decimalValue(ds) ==
  IF ds = <<>> THEN 0
  ELSE decimalValue(SubSeq(ds, 1, Len(ds) - 1)) * Len(DigitChars) + DigitOf(ds[Len(ds)])

\* Number.parseInt(raw, 10): blanks are skipped, a sign is read, then the
\* digits up to the first other character; NaN when there is no digit.
parseInt(raw) ==
  LET t      == trimStart(raw)
      signed == t # <<>> /\ Head(t) \in {"-", "+"}
      ds     == digitsPrefix(IF signed THEN Tail(t) ELSE t)
  IN  IF ds = <<>> THEN [nan |-> TRUE, value |-> 0]
      ELSE [nan |-> FALSE,
            value |-> IF signed /\ Head(t) = "-" THEN 0 - decimalValue(ds)
                      ELSE decimalValue(ds)]

\* if (Number.isNaN(value) || value < 0) throw
parseNonNegativeInt(raw) ==
  LET parsed == parseInt(raw)
  IN  IF parsed.nan \/ parsed.value < 0 THEN [ok |-> FALSE, value |-> 0]
      ELSE [ok |-> TRUE, value |-> parsed.value]

\* String(n) for one-digit n
RawOf(n) == <<DigitChars[n + 1]>>

\* Option texts that parseNonNegativeInt refuses: a negative number, no digit.
InvalidRaws == { <<"-", "1">>, <<"x">> }

\* currentUsers + 30, the default target
DefaultTargetGain == 30

\* The two delays as the defaults spell them.
MalDelayRaws == { <<"8", "0", "0">> }
JikanDelayRaws == { <<"4", "5", "0">> }

\* ------------------------------------------------------------------------
\* Rating store
\* ------------------------------------------------------------------------
Anime == {1, 2}
Scores == {1, 2}
TitleOf(animeId) == <<"title", animeId>>

RECURSIVE Factorial(_)
Factorial(n) == IF n <= 1 THEN 1 ELSE n * Factorial(n - 1)

\* normalized_score is a REAL, a binary floating-point number: AVG gives the
\* mean rounded to the nearest number of the format.  The model keeps the
\* binary fraction digits that hold the mean of the ratings of two items
\* exactly: a score is stored multiplied by NormScale, and a mean that is not
\* a multiple of 1/NormScale is rounded to the nearest one.
NormScale == Factorial(Cardinality(Anime))
nearestUnit(num, den) ==
  IF num >= 0 THEN (2 * num + den) \div (2 * den)
  ELSE 0 - ((2 * (0 - num) + den) \div (2 * den))

EmptyDb == [users |-> {}, anime |-> <<>>, ratings |-> <<>>]

upsertUser(d, userId) == [d EXCEPT !.users = @ \cup {userId}]

upsertAnime(d, animeId, title) ==
  [d EXCEPT !.anime = [i \in (DOMAIN @) \cup {animeId} |->
                         IF i = animeId THEN title ELSE @[i]]]

\* (variant: ON CONFLICT DO NOTHING)
upsertRatingKeepsFirst(d, userId, animeId, rawScore) ==
  LET k == <<userId, animeId>>
  IN  IF k \in DOMAIN d.ratings THEN d
      ELSE [d EXCEPT !.ratings = [x \in (DOMAIN @) \cup {k} |->
              IF x = k THEN [raw_score |-> rawScore, normalized_score |-> 0] ELSE @[x]]]
upsertRating(d, userId, animeId, rawScore) ==
  LET k == <<userId, animeId>>
  IN  [d EXCEPT !.ratings = [x \in (DOMAIN @) \cup {k} |->
        IF x = k
        THEN IF k \in DOMAIN @
             THEN [raw_score |-> rawScore,
                   normalized_score |-> d.ratings[k].normalized_score]
             ELSE [raw_score |-> rawScore, normalized_score |-> 0]
        ELSE @[x]]]

RECURSIVE insertRatings(_, _, _)
insertRatings(d, userId, ratings) ==
  IF ratings = <<>> THEN d
  ELSE insertRatings(
         upsertRating(upsertAnime(d, Head(ratings).anime_id, Head(ratings).anime_title),
                      userId, Head(ratings).anime_id, Head(ratings).score),
         userId, Tail(ratings))

insertTx(d, userId, ratings) == insertRatings(upsertUser(d, userId), userId, ratings)

\* The store after the first k statements of the body of insertTx: the user
\* row, then for each entry the item row and the rating row.
RECURSIVE runStatements(_, _, _, _)
runStatements(d, userId, ratings, k) ==
  IF k = 0 \/ ratings = <<>> THEN d
  ELSE LET withAnime == upsertAnime(d, Head(ratings).anime_id, Head(ratings).anime_title)
       IN  IF k = 1 THEN withAnime
           ELSE runStatements(upsertRating(withAnime, userId, Head(ratings).anime_id,
                                           Head(ratings).score),
                              userId, Tail(ratings), k - 2)

insertTxPrefix(d, userId, ratings, k) ==
  IF k = 0 THEN d ELSE runStatements(upsertUser(d, userId), userId, ratings, k - 1)

\* db.transaction(fn): an error thrown inside fn rolls the store back to what
\* it was at BEGIN.   (variant: the statements run without a transaction)
rollbackKeepsWrites(before, partial) == partial
rollback(before, partial) == before

RatedBy(d, userId) == { k \in DOMAIN d.ratings : k[1] = userId }

RECURSIVE SumRaw(_, _)
SumRaw(d, keys) ==
  IF keys = {} THEN 0
  ELSE LET k == CHOOSE x \in keys : TRUE
       IN  d.ratings[k].raw_score + SumRaw(d, keys \ {k})

\* (variant: the stored scores are kept)
recomputeKeepsStored(d) == d
recomputeNormalizedScores(d) ==
  [d EXCEPT !.ratings = [k \in DOMAIN @ |->
     LET mine == RatedBy(d, k[1])
         n    == Cardinality(mine)
     IN  [raw_score |-> d.ratings[k].raw_score,
          normalized_score |->
            d.ratings[k].raw_score * NormScale - nearestUnit(SumRaw(d, mine) * NormScale, n)]]]

countUsers(d) == Cardinality(d.users)

userExists(d, userId) == userId \in d.users

\* ORDER BY raw_score DESC, anime_id ASC
RatingBefore(d, userId, a, b) ==
  LET ra == d.ratings[<<userId, a>>].raw_score
      rb == d.ratings[<<userId, b>>].raw_score
  IN  ra > rb \/ (ra = rb /\ a < b)

RECURSIVE orderedRatings(_, _, _)
orderedRatings(d, userId, ids) ==
  IF ids = {} THEN <<>>
  ELSE LET first == CHOOSE a \in ids : \A b \in ids \ {a} : RatingBefore(d, userId, a, b)
       IN  <<[animeId |-> first, rawScore |-> d.ratings[<<userId, first>>].raw_score]>>
             \o orderedRatings(d, userId, ids \ {first})

slice(s, n) == SubSeq(s, 1, Min2(n, Len(s)))

\* Variant: ORDER BY anime_id ASC alone.
RECURSIVE orderedByAnimeId(_, _, _)
orderedByAnimeId(d, userId, ids) ==
  IF ids = {} THEN <<>>
  ELSE LET first == CHOOSE a \in ids : \A b \in ids : a <= b
       IN  <<[animeId |-> first, rawScore |-> d.ratings[<<userId, first>>].raw_score]>>
             \o orderedByAnimeId(d, userId, ids \ {first})

existingRatingsStmtByAnimeId(d, userId, limit) ==
  slice(orderedByAnimeId(d, userId, { k[2] : k \in RatedBy(d, userId) }), limit)

\* SELECT ... WHERE user_id = ? ORDER BY raw_score DESC, anime_id ASC LIMIT ?
existingRatingsStmt(d, userId, limit) ==
  slice(orderedRatings(d, userId, { k[2] : k \in RatedBy(d, userId) }), limit)

\* ------------------------------------------------------------------------
\* Discovery seeds of a freshly fetched list
\* ------------------------------------------------------------------------
\* Array.prototype.sort is stable: an element goes behind every element
\* that does not compare after it.
RECURSIVE insertSorted(_, _)
insertSorted(sorted, r) ==
  IF sorted = <<>> THEN <<r>>
  ELSE IF r.rawScore > Head(sorted).rawScore THEN <<r>> \o sorted
       ELSE <<Head(sorted)>> \o insertSorted(Tail(sorted), r)

RECURSIVE sortByRawScoreDesc(_)
sortByRawScoreDesc(rs) ==
  IF rs = <<>> THEN <<>>
  ELSE insertSorted(sortByRawScoreDesc(SubSeq(rs, 1, Len(rs) - 1)), rs[Len(rs)])

\* ratings.map(...).sort((l, r) => r.rawScore - l.rawScore).slice(0, n)
discoveryRatingsOf(ratings, n) ==
  slice(sortByRawScoreDesc([i \in 1..Len(ratings) |->
          [animeId |-> ratings[i].anime_id, rawScore |-> ratings[i].score]]), n)

\* ------------------------------------------------------------------------
\* Crawler (expand-network)
\* ------------------------------------------------------------------------
VARIABLES
  seedCsv, salt, targetTotalUsers, discoveryAnimePerUser, updatesPagesPerAnime,
  fallbackUsersPages, minScoredAnime,
  db,
  queue, queued, processed,
  currentUsers, insertedUsers, skippedUsers, failedUsers, discoveredUsers,
  pc, page, username, discoveryRatings, seedIdx,
  event, fetchedCount, enqLog, deqLog, decided, malFetches, recomputes,
  rawOptions, malDelayMs, jikanDelayMs, storeUse, lastCall, sleptMs

\* rawOptions: the option texts of the command line, read once.
\* storeUse: "none" until openDatabase, "opened", "queried" after the first
\* statement has run.  lastCall: the source of the last external call;
\* sleptMs: the time slept since that call came back.
options == <<seedCsv, salt, targetTotalUsers, discoveryAnimePerUser,
             updatesPagesPerAnime, fallbackUsersPages, minScoredAnime,
             rawOptions, malDelayMs, jikanDelayMs>>
frontier == <<queue, queued, processed>>
counters == <<insertedUsers, skippedUsers, failedUsers, discoveredUsers>>
pacing == <<lastCall, sleptMs>>
crawlerVars == <<options, db, frontier, currentUsers, counters, pc, page, username,
                 discoveryRatings, seedIdx, event, fetchedCount, enqLog, deqLog,
                 decided, malFetches, recomputes, storeUse, pacing>>

\* One request of an HTTP client (fetchMalPage, fetchJsonWithRetry): the
\* function running, what it asks for, the loop counter, the requests sent,
\* the last response (status 0: none), the last backoff slept (ms), how the
\* call ended.
VARIABLES client, request, attempt, requests, status, retryAfterHeader, sleptFor,
          result, error
retryVars == <<client, request, attempt, requests, status, retryAfterHeader, sleptFor,
               result, error>>

\* One run of the graph build: the snapshot as loadDatasetFromDb returned it,
\* the arguments of createGraph (dataset is normalized in place), its locals, the
\* loop positions (user, i, j), the returned graph, the pair encounters so
\* far in processing order (key, score, kept or refused), the compact graph
\* written, and the graph the web client expands from it.
VARIABLES snapshot, dataset, maxRatingsPerUser, maxAnimeAnimeEdges,
          nodes, edges, animePairEdgeWeights, skippedNewAnimeAnimePairs,
          userAt, left, right, phase, graph, contributions, compactGraph, loaded
graphArgs == <<snapshot, dataset, maxRatingsPerUser, maxAnimeAnimeEdges>>
graphVars == <<graphArgs, nodes, edges, animePairEdgeWeights, skippedNewAnimeAnimePairs,
               userAt, left, right, phase, graph, contributions, compactGraph, loaded>>

\* One run of collect-mal: the usernames of the command line, the place of
\* the loop, the store, and what the committed ingestions of the run gave
\* last for each (user, item) pair and each item.
VARIABLES userNames, collectAt, collectPc, store, given
collectVars == <<userNames, collectAt, collectPc, store, given>>

\* One call of fetchMalRatings: the list the server holds for the user, the
\* locals offset and ratings (fetched), the offsets requested and the pages
\* received so far, how the call ended and what it returned.
VARIABLES malList, offset, fetched, offsets, received, ratingsCall, returned
ratingsVars == <<malList, offset, fetched, offsets, received, ratingsCall, returned>>

vars == <<crawlerVars, retryVars, graphVars, collectVars, ratingsVars>>

\* A script that is not running.
RetryIdle ==
  /\ client = "none" /\ request = <<>> /\ attempt = 0 /\ requests = 0 /\ status = 0
  /\ retryAfterHeader = <<>> /\ sleptFor = 0 /\ result = "none" /\ error = <<>>
GraphIdle ==
  /\ snapshot = <<>> /\ dataset = <<>> /\ maxRatingsPerUser = 0 /\ maxAnimeAnimeEdges = 0
  /\ nodes = <<>> /\ edges = <<>> /\ animePairEdgeWeights = <<>>
  /\ skippedNewAnimeAnimePairs = 0 /\ userAt = 0 /\ left = 0 /\ right = 0
  /\ phase = "none" /\ graph = <<>> /\ contributions = <<>>
  /\ compactGraph = <<>> /\ loaded = <<>>

CollectIdle ==
  /\ userNames = <<>> /\ collectAt = 0 /\ collectPc = "none"
  /\ store = <<>> /\ given = <<>>
RatingsIdle ==
  /\ malList = <<>> /\ offset = 0 /\ fetched = <<>> /\ offsets = <<>> /\ received = <<>>
  /\ ratingsCall = "none" /\ returned = <<>>

\* What an external call can give back.
StoreOutcomes == {"ok", "error"}
JikanPages == SeqsUpTo(RawNames, MaxPageLen)

\* The lists fetchMalRatings can return: score > 0, one entry per item.
RatingLists ==
  { l \in SeqsUpTo([anime_id : Anime, score : Scores], Cardinality(Anime)) :
      \A i, j \in 1..Len(l) : i # j => l[i].anime_id # l[j].anime_id }

WithTitles(l) ==
  [i \in 1..Len(l) |-> [anime_id |-> l[i].anime_id,
                        anime_title |-> TitleOf(l[i].anime_id),
                        score |-> l[i].score]]

\* Stores left behind by earlier runs: empty, or one user of this identity
\* space, ingested and normalized (one rating, a tie, no tie).
PriorLists ==
  { <<[anime_id |-> 2, score |-> 1]>>,
    <<[anime_id |-> 1, score |-> 2], [anime_id |-> 2, score |-> 2]>>,
    <<[anime_id |-> 1, score |-> 1], [anime_id |-> 2, score |-> 2]>> }
InitialStores ==
  { EmptyDb } \cup
  { recomputeNormalizedScores(insertTx(EmptyDb, anonymizeUsername(<<"a">>, "s1"), WithTitles(l))) :
      l \in PriorLists }

\* Variant: only the empty name is refused.
enqueueAgain(name, f, pr) ==
  LET normalized == normalizeUsername(name)
  IN  IF normalized = <<>> THEN f
      ELSE [queue |-> Append(f.queue, trim(name)), queued |-> f.queued \cup {normalized}]

\* Variant: queue.unshift instead of queue.push.
enqueueFront(name, f, pr) ==
  LET normalized == normalizeUsername(name)
  IN  IF normalized = <<>> \/ normalized \in f.queued \/ normalized \in pr
      THEN f
      ELSE [queue |-> <<trim(name)>> \o f.queue, queued |-> f.queued \cup {normalized}]

enqueue(name, f, pr) ==
  LET normalized == normalizeUsername(name)
  IN  IF normalized = <<>> \/ normalized \in f.queued \/ normalized \in pr
      THEN f
      ELSE [queue |-> Append(f.queue, trim(name)), queued |-> f.queued \cup {normalized}]

\* for (const name of names) { preLen = queue.length; enqueue(...);
\*   if (queue.length > preLen) pushed += 1 }
\* pushed keeps the names that made the queue longer, in order.
RECURSIVE enqueueEach(_, _, _, _)
enqueueEach(names, f, pr, pushed) ==
  IF names = <<>> THEN [queue |-> f.queue, queued |-> f.queued, pushed |-> pushed]
  ELSE LET g == enqueue(Head(names), f, pr)
       IN  enqueueEach(Tail(names), g, pr,
             IF Len(g.queue) > Len(f.queue) THEN Append(pushed, Head(names)) ELSE pushed)

Keys(names) == [i \in 1..Len(names) |-> normalizeUsername(names[i])]

\* The option texts of a run: every option valid, or one of them refused.
\* The target may be left out (its default is computed from the store).
Undefined == <<"undefined">>
OptionNames ==
  {"malDelayMs", "jikanDelayMs", "discoveryAnimePerUser", "updatesPagesPerAnime",
   "fallbackUsersPages", "minScoredAnime", "targetTotalUsers"}
ValidRawOptions ==
  [malDelayMs : MalDelayRaws,
   jikanDelayMs : JikanDelayRaws,
   discoveryAnimePerUser : { RawOf(n) : n \in FanOuts },
   updatesPagesPerAnime : { RawOf(n) : n \in PagesPerAnime },
   fallbackUsersPages : { RawOf(n) : n \in FallbackPages },
   minScoredAnime : { RawOf(n) : n \in MinScored },
   targetTotalUsers : { RawOf(n) : n \in 0..MaxTarget } \cup { Undefined }]
RawOptions ==
  ValidRawOptions \cup
  { [r EXCEPT ![o] = bad] : r \in ValidRawOptions, o \in OptionNames, bad \in InvalidRaws }

Init ==
  /\ seedCsv \in SeedLists
  /\ salt = "s1"
  /\ rawOptions \in RawOptions
  /\ malDelayMs = 0 /\ jikanDelayMs = 0
  /\ targetTotalUsers = 0
  /\ discoveryAnimePerUser = 0
  /\ updatesPagesPerAnime = 0
  /\ fallbackUsersPages = 0
  /\ minScoredAnime = 0
  /\ storeUse = "none" /\ lastCall = "none" /\ sleptMs = 0
  /\ db \in InitialStores
  /\ queue = <<>> /\ queued = {} /\ processed = {}
  /\ currentUsers = 0
  /\ insertedUsers = 0 /\ skippedUsers = 0 /\ failedUsers = 0 /\ discoveredUsers = 0
  /\ pc = "parse" /\ page = 1 /\ username = <<>> /\ discoveryRatings = <<>> /\ seedIdx = 1
  /\ event = "init" /\ fetchedCount = 0
  /\ enqLog = <<>> /\ deqLog = <<>> /\ decided = <<>>
  /\ malFetches = 0 /\ recomputes = 0
  /\ RetryIdle /\ GraphIdle /\ CollectIdle /\ RatingsIdle

CrawlerIdle ==
  /\ seedCsv = <<>> /\ salt = "s1" /\ rawOptions = <<>>
  /\ malDelayMs = 0 /\ jikanDelayMs = 0 /\ targetTotalUsers = 0
  /\ discoveryAnimePerUser = 0 /\ updatesPagesPerAnime = 0
  /\ fallbackUsersPages = 0 /\ minScoredAnime = 0
  /\ storeUse = "none" /\ lastCall = "none" /\ sleptMs = 0
  /\ db = EmptyDb
  /\ queue = <<>> /\ queued = {} /\ processed = {}
  /\ currentUsers = 0
  /\ insertedUsers = 0 /\ skippedUsers = 0 /\ failedUsers = 0 /\ discoveredUsers = 0
  /\ pc = "none" /\ page = 1 /\ username = <<>> /\ discoveryRatings = <<>> /\ seedIdx = 1
  /\ event = "none" /\ fetchedCount = 0
  /\ enqLog = <<>> /\ deqLog = <<>> /\ decided = <<>>
  /\ malFetches = 0 /\ recomputes = 0

\* ---- helpers of the draining loop ----

\* if (totalUsers >= targetTotalUsers) break;
\* (variants: > for >=; no check of the count)
targetReachedOffByOne(totalUsers, target) == totalUsers > target
targetReachedNever(totalUsers, target) == FALSE
targetReached(totalUsers, target) == totalUsers >= target

\* processed.add(key)   (variant: the key is not added)
markProcessedForgotten(pr, key) == pr
markProcessed(pr, key) == pr \cup {key}

\* if (ratings.length < minScoredAnime)   (variant: one less)
belowMinimumOffByOne(n, minimum) == n + 1 < minimum
belowMinimum(n, minimum) == n < minimum

\* catch (error) { failedUsers += 1; ...; continue; }   (variant: no catch)
candidateCatchRethrows(failed) == [failedUsers |-> failed, pc |-> "crashed"]
candidateCatch(failed) == [failedUsers |-> failed + 1, pc |-> "loop"]

\* if (updatesPagesPerAnime === 0 || discoveryRatings.length === 0) continue;
\* otherwise the discovery loops start at the first seed, page 1.
afterDecision(ratings) ==
  IF updatesPagesPerAnime = 0 \/ Len(ratings) = 0 \/ Len(slice(ratings, discoveryAnimePerUser)) = 0
  THEN "loop" ELSE "discover"

\* Where the two discovery loops stand after a page: break leaves the page
\* loop of the item, the page loop ends after updatesPagesPerAnime pages, and
\* the item loop ends after discoveryRatings.slice(0, discoveryAnimePerUser).
\* (variant: continue where the code has break)
afterPageIgnoresBreak(break, idx, pg, seeds) ==
  IF pg < updatesPagesPerAnime
  THEN [pc |-> "discover", seedIdx |-> idx, page |-> pg + 1]
  ELSE IF idx < Len(slice(seeds, discoveryAnimePerUser))
       THEN [pc |-> "discover", seedIdx |-> idx + 1, page |-> 1]
       ELSE [pc |-> "loop", seedIdx |-> 1, page |-> 1]
afterPage(break, idx, pg, seeds) ==
  IF ~break /\ pg < updatesPagesPerAnime
  THEN [pc |-> "discover", seedIdx |-> idx, page |-> pg + 1]
  ELSE IF idx < Len(slice(seeds, discoveryAnimePerUser))
       THEN [pc |-> "discover", seedIdx |-> idx + 1, page |-> 1]
       ELSE [pc |-> "loop", seedIdx |-> 1, page |-> 1]

\* an error that no catch handles: finally closes the store, the run ends
Crash(what) ==
  /\ pc' = "crashed"
  /\ event' = what

\* ---- lines 222-253: the six options parsed in this order, then the store
\* is opened ----
ParseOptions ==
  /\ pc = "parse"
  /\ UNCHANGED <<retryVars, graphVars, collectVars, ratingsVars>>
  /\ LET mal      == parseNonNegativeInt(rawOptions.malDelayMs)
         jikan    == parseNonNegativeInt(rawOptions.jikanDelayMs)
         fanOut   == parseNonNegativeInt(rawOptions.discoveryAnimePerUser)
         pages    == parseNonNegativeInt(rawOptions.updatesPagesPerAnime)
         fallback == parseNonNegativeInt(rawOptions.fallbackUsersPages)
         minimum  == parseNonNegativeInt(rawOptions.minScoredAnime)
     IN  IF mal.ok /\ jikan.ok /\ fanOut.ok /\ pages.ok /\ fallback.ok /\ minimum.ok
         THEN /\ malDelayMs' = mal.value
              /\ jikanDelayMs' = jikan.value
              /\ discoveryAnimePerUser' = fanOut.value
              /\ updatesPagesPerAnime' = pages.value
              /\ fallbackUsersPages' = fallback.value
              /\ minScoredAnime' = minimum.value
              /\ \E outcome \in StoreOutcomes :
                   IF outcome = "error"
                   THEN Crash("openError") /\ UNCHANGED storeUse
                   ELSE pc' = "start" /\ event' = "parsed" /\ storeUse' = "opened"
         ELSE /\ Crash("configError")
              /\ UNCHANGED <<malDelayMs, jikanDelayMs, discoveryAnimePerUser,
                             updatesPagesPerAnime, fallbackUsersPages, minScoredAnime,
                             storeUse>>
  /\ UNCHANGED <<seedCsv, salt, rawOptions, targetTotalUsers, db, frontier, currentUsers,
                 counters, page, username, discoveryRatings, seedIdx, fetchedCount,
                 enqLog, deqLog, decided, malFetches, recomputes, pacing>>

\* targetTotalUsers ?? String(currentUsers + 30), then parseNonNegativeInt
targetOf(raw, current) ==
  IF raw = Undefined THEN [ok |-> TRUE, value |-> current + DefaultTargetGain]
  ELSE parseNonNegativeInt(raw)

\* ---- lines 292-313: count, target, seeds ----
Start ==
  /\ pc = "start"
  /\ UNCHANGED <<retryVars, graphVars, collectVars, ratingsVars>>
  /\ \E outcome \in StoreOutcomes :
       IF outcome = "error"
       THEN /\ Crash("startError")
            /\ UNCHANGED <<frontier, currentUsers, enqLog, targetTotalUsers>>
       ELSE LET f == enqueueEach(splitCsv(seedCsv), [queue |-> queue, queued |-> queued],
                                 processed, <<>>)
                target == targetOf(rawOptions.targetTotalUsers, countUsers(db))
            IN  /\ currentUsers' = countUsers(db)
                /\ IF target.ok
                   THEN /\ targetTotalUsers' = target.value
                        /\ queue' = f.queue
                        /\ queued' = f.queued
                        /\ enqLog' = enqLog \o Keys(f.pushed)
                        /\ pc' = IF fallbackUsersPages > 0 THEN "prime" ELSE "loop"
                        /\ event' = "seeded"
                        /\ UNCHANGED processed
                   ELSE /\ Crash("configError")
                        /\ UNCHANGED <<frontier, enqLog, targetTotalUsers>>
  /\ storeUse' = "queried"
  /\ UNCHANGED <<seedCsv, salt, rawOptions, malDelayMs, jikanDelayMs,
                 discoveryAnimePerUser, updatesPagesPerAnime, fallbackUsersPages,
                 minScoredAnime, db, counters, page, username, discoveryRatings, seedIdx,
                 fetchedCount, deqLog, decided, malFetches, recomputes, pacing>>

\* if (delayMs > 0) await sleep(delayMs): the time slept
sleep(delayMs) == IF delayMs > 0 THEN delayMs ELSE 0

\* ---- lines 317-331: one /users page, then the delay, failed page or not ----
PrimePage ==
  /\ pc = "prime"
  /\ UNCHANGED <<retryVars, graphVars, collectVars, ratingsVars>>
  /\ \/ /\ event' = "primeFailed"
        /\ UNCHANGED <<frontier, enqLog>>
     \/ \E data \in JikanPages :
          LET f == enqueueEach(jikanUsernames(data), [queue |-> queue, queued |-> queued],
                               processed, <<>>)
          IN  /\ queue' = f.queue
              /\ queued' = f.queued
              /\ enqLog' = enqLog \o Keys(f.pushed)
              /\ event' = "primed"
              /\ UNCHANGED processed
  /\ lastCall' = "jikan"
  /\ sleptMs' = sleep(jikanDelayMs)
  /\ IF page < fallbackUsersPages
     THEN page' = page + 1 /\ pc' = "prime"
     ELSE page' = 1 /\ pc' = "loop"
  /\ UNCHANGED <<options, db, currentUsers, counters, username, discoveryRatings, seedIdx,
                 fetchedCount, deqLog, decided, malFetches, recomputes, storeUse>>

\* ---- lines 433-443: after the loop (variant: no recompute) ----
ExitLoopWithoutRecompute ==
  /\ pc' = "done"
  /\ event' = "summary"
  /\ UNCHANGED <<db, recomputes>>
ExitLoop ==
  /\ db' = recomputeNormalizedScores(db)
  /\ recomputes' = recomputes + 1
  /\ pc' = "done"
  /\ event' = "summary"

\* ---- lines 339-343 and 433-441: the loop is left ----
LoopExit ==
  /\ pc = "loop"
  /\ UNCHANGED <<retryVars, graphVars, collectVars, ratingsVars>>
  /\ \/ queue = <<>>
     \/ queue # <<>> /\ targetReached(countUsers(db), targetTotalUsers)
  /\ ExitLoop
  /\ UNCHANGED <<options, frontier, currentUsers, counters, page, username,
                 discoveryRatings, seedIdx, fetchedCount, enqLog, deqLog, decided,
                 malFetches, storeUse, pacing>>

\* ---- line 340: the count query of the loop head throws ----
LoopStoreError ==
  /\ pc = "loop"
  /\ UNCHANGED <<retryVars, graphVars, collectVars, ratingsVars>>
  /\ queue # <<>>
  /\ Crash("storeError")
  /\ UNCHANGED <<options, db, frontier, currentUsers, counters, page, username,
                 discoveryRatings, seedIdx, fetchedCount, enqLog, deqLog, decided,
                 malFetches, recomputes, storeUse, pacing>>

\* ---- lines 345-366 and 396-398: dequeue, and the stored-user branch ----
\* The two store queries of the branch are outside the try of the candidate:
\* when one throws, the error leaves the loop.
Dequeue ==
  /\ pc = "loop"
  /\ UNCHANGED <<retryVars, graphVars, collectVars, ratingsVars>>
  /\ queue # <<>>
  /\ ~targetReached(countUsers(db), targetTotalUsers)
  /\ LET name   == Head(queue)
         key    == normalizeUsername(name)
         userId == anonymizeUsername(name, salt)
     IN  /\ queue' = Tail(queue)
         /\ deqLog' = Append(deqLog, name)
         /\ username' = name
         /\ IF name = <<>>
            THEN /\ event' = "emptyEntry"
                 /\ pc' = "loop"
                 /\ UNCHANGED <<queued, processed, decided, skippedUsers, discoveryRatings>>
            ELSE /\ queued' = queued \ {key}
                 /\ IF key \in processed
                    THEN /\ event' = "alreadyProcessed"
                         /\ pc' = "loop"
                         /\ UNCHANGED <<processed, decided, skippedUsers, discoveryRatings>>
                    ELSE /\ processed' = markProcessed(processed, key)
                         /\ decided' = Append(decided, name)
                         /\ \/ /\ Crash("storeError")
                               /\ UNCHANGED <<skippedUsers, discoveryRatings>>
                            \/ /\ userExists(db, userId)
                               /\ skippedUsers' = skippedUsers + 1
                               /\ \/ /\ Crash("storeError")
                                     /\ UNCHANGED discoveryRatings
                                  \/ /\ discoveryRatings' =
                                          existingRatingsStmt(db, userId, discoveryAnimePerUser)
                                     /\ event' = "skipExisting"
                                     /\ pc' = afterDecision(discoveryRatings')
                            \/ /\ ~userExists(db, userId)
                               /\ event' = "fetching"
                               /\ pc' = "fetch"
                               /\ discoveryRatings' = <<>>
                               /\ UNCHANGED skippedUsers
  /\ seedIdx' = 1
  /\ page' = 1
  /\ UNCHANGED <<options, db, currentUsers, insertedUsers, failedUsers, discoveredUsers,
                 fetchedCount, enqLog, malFetches, recomputes, storeUse, pacing>>

\* ---- lines 367-398: the rating fetch comes back ----
\* fetchMalRatings sleeps malDelayMs between two pages of one user and
\* returns, or throws, right after its last response: no time has been slept
\* since the call when the crawler goes on.
FetchResult ==
  /\ pc = "fetch"
  /\ UNCHANGED <<retryVars, graphVars, collectVars, ratingsVars>>
  /\ malFetches' = malFetches + 1
  /\ \/ \* fetchMalRatings throws
        /\ fetchedCount' = -1
        /\ event' = "fetchFailed"
        /\ failedUsers' = candidateCatch(failedUsers).failedUsers
        /\ pc' = candidateCatch(failedUsers).pc
        /\ UNCHANGED <<db, insertedUsers, skippedUsers, discoveryRatings>>
     \/ \E list \in RatingLists :
          LET ratings == WithTitles(list)
              userId  == anonymizeUsername(username, salt)
          IN  /\ fetchedCount' = Len(ratings)
              /\ IF belowMinimum(Len(ratings), minScoredAnime)
                 THEN /\ skippedUsers' = skippedUsers + 1
                      /\ event' = "skipMinimum"
                      /\ pc' = "loop"
                      /\ UNCHANGED <<db, insertedUsers, failedUsers, discoveryRatings>>
                 ELSE \/ \* a statement of insertTx throws after k others
                         /\ \E k \in 0..(2 * Len(ratings) + 1) :
                              db' = rollback(db, insertTxPrefix(db, userId, ratings, k))
                         /\ event' = "insertFailed"
                         /\ failedUsers' = candidateCatch(failedUsers).failedUsers
                         /\ pc' = candidateCatch(failedUsers).pc
                         /\ UNCHANGED <<insertedUsers, skippedUsers, discoveryRatings>>
                      \/ /\ db' = insertTx(db, userId, ratings)
                         /\ insertedUsers' = insertedUsers + 1
                         /\ discoveryRatings' = discoveryRatingsOf(ratings, discoveryAnimePerUser)
                         /\ UNCHANGED skippedUsers
                         /\ \/ \* the count query of the [add] line throws
                               /\ event' = "countFailed"
                               /\ failedUsers' = candidateCatch(failedUsers).failedUsers
                               /\ pc' = candidateCatch(failedUsers).pc
                            \/ /\ event' = "inserted"
                               /\ pc' = afterDecision(discoveryRatings')
                               /\ UNCHANGED failedUsers
  /\ lastCall' = "mal"
  /\ sleptMs' = 0
  /\ seedIdx' = 1
  /\ page' = 1
  /\ UNCHANGED <<options, frontier, currentUsers, discoveredUsers, username,
                 enqLog, deqLog, decided, recomputes, storeUse>>

\* ---- lines 400-430: one userupdates page of the current seed item ----
DiscoverPage ==
  /\ pc = "discover"
  /\ UNCHANGED <<retryVars, graphVars, collectVars, ratingsVars>>
  /\ \/ \* fetchJikanAnimeUserUpdates throws: log, break
        /\ event' = "updatesFailed"
        /\ pc' = afterPage(TRUE, seedIdx, page, discoveryRatings).pc
        /\ seedIdx' = afterPage(TRUE, seedIdx, page, discoveryRatings).seedIdx
        /\ page' = afterPage(TRUE, seedIdx, page, discoveryRatings).page
        /\ sleptMs' = 0
        /\ UNCHANGED <<frontier, discoveredUsers, enqLog>>
     \/ \E data \in JikanPages :
          LET usernames == jikanUsernames(data)
              f == enqueueEach(usernames, [queue |-> queue, queued |-> queued],
                               processed, <<>>)
              next == afterPage(Len(usernames) = 0, seedIdx, page, discoveryRatings)
          IN  /\ queue' = f.queue
              /\ queued' = f.queued
              /\ discoveredUsers' = discoveredUsers + Len(f.pushed)
              /\ enqLog' = enqLog \o Keys(f.pushed)
              /\ event' = IF Len(usernames) = 0 THEN "updatesEmpty" ELSE "updates"
              /\ pc' = next.pc
              /\ seedIdx' = next.seedIdx
              /\ page' = next.page
              \* break comes before the delay of lines 426-428
              /\ sleptMs' = IF Len(usernames) = 0 THEN 0 ELSE sleep(jikanDelayMs)
              /\ UNCHANGED processed
  /\ lastCall' = "jikan"
  /\ UNCHANGED <<options, db, currentUsers, insertedUsers, skippedUsers, failedUsers,
                 username, discoveryRatings, fetchedCount, deqLog, decided, malFetches,
                 recomputes, storeUse>>

Next ==
  \/ ParseOptions
  \/ Start
  \/ PrimePage
  \/ LoopExit
  \/ LoopStoreError
  \/ Dequeue
  \/ FetchResult
  \/ DiscoverPage

Spec == Init /\ [][Next]_vars

\* ------------------------------------------------------------------------
\* Properties of the crawler
\* ------------------------------------------------------------------------

\* C1: for every normalized username key (trim + lowercase) at most one
\* dequeued candidate with that key reaches the per-candidate decision.
C1_AtMostOnce ==
  \A i, j \in 1..Len(decided) :
    i # j => toLowerCase(trim(decided[i])) # toLowerCase(trim(decided[j]))

\* C1 witness: the seed "a" was processed and a later discovery page with
\* usernames made the queue no longer; "b" would have been appended, so the
\* page offered "A " for the processed key.
C1_Witness ==
  /\ decided = << <<"a">> >>
  /\ enqLog = << <<"a">> >>
  /\ event = "updates"
  /\ queue = <<>>

\* C2: a candidate is dequeued only when the queue is non-empty and the store
\* count is below the target; a loop head that sees an empty queue or
\* count >= target leaves the loop without dequeuing, fetching or inserting;
\* a run that starts with count >= target ends with insertedUsers = 0 and
\* no rating fetch.
C2_LoopGuard ==
  [][ /\ Len(deqLog') > Len(deqLog) =>
           queue # <<>> /\ Cardinality(db.users) < targetTotalUsers
      /\ (pc = "loop" /\ (queue = <<>> \/ Cardinality(db.users) >= targetTotalUsers)) =>
           /\ pc' \in {"done", "crashed"}
           /\ deqLog' = deqLog
           /\ malFetches' = malFetches
           /\ db'.users = db.users
      /\ (pc' = "done" /\ currentUsers' >= targetTotalUsers') =>
           insertedUsers' = 0 /\ malFetches' = 0
    ]_vars

\* C2 witness: target 1 with the seed's user already stored: the run is over
\* with the seed still queued.
C2_Witness ==
  /\ pc = "done"
  /\ targetTotalUsers = 1
  /\ currentUsers = 1
  /\ queue # <<>>
  /\ insertedUsers = 0

C4_FetchFailureIsolated ==
  [][ (pc = "fetch" /\ fetchedCount' = -1) =>
        /\ failedUsers' = failedUsers + 1
        /\ insertedUsers' = insertedUsers
        /\ skippedUsers' = skippedUsers
        /\ db' = db
        /\ queue' = queue
        /\ pc' = "loop"
    ]_vars

\* C4 witness: a fetch failed and another candidate is still queued.
C4_Witness ==
  event = "fetchFailed" /\ failedUsers = 1 /\ queue # <<>> /\ pc = "loop"

\* C5: an error of the per-user persist transaction ends the crawl run.
C5_InsertErrorIsFatal ==
  event = "insertFailed" => pc = "crashed"

\* The ratings of a user in the order raw score descending, lower item id
\* first, cut to n: no entry twice, every entry a rating of the user, each
\* entry ranked before the next and before every rating left out.
RankedBefore(x, y) ==
  x.rawScore > y.rawScore \/ (x.rawScore = y.rawScore /\ x.animeId < y.animeId)

IsTopN(seeds, d, userId, n) ==
  LET mine == { [animeId |-> k[2], rawScore |-> d.ratings[k].raw_score] :
                  k \in { x \in DOMAIN d.ratings : x[1] = userId } }
      used == { seeds[i] : i \in 1..Len(seeds) }
  IN  /\ Len(seeds) = (IF n < Cardinality(mine) THEN n ELSE Cardinality(mine))
      /\ Cardinality(used) = Len(seeds)
      /\ used \subseteq mine
      /\ \A i \in 1..Len(seeds) : \A j \in 1..Len(seeds) :
           i < j => RankedBefore(seeds[i], seeds[j])
      /\ \A x \in used : \A y \in mine \ used : RankedBefore(x, y)

\* C6: the discovery seeds of a newly inserted user are the first N of its
\* fetched ratings by raw score descending, lower item id first.
C6_InsertedSeedsTopN ==
  event = "inserted" =>
    IsTopN(discoveryRatings, db, <<salt, toLowerCase(trim(username))>>,
           discoveryAnimePerUser)

\* C7: a fetched positive-rating count below minScoredAnime adds 1 to
\* skippedUsers and leaves the store, the queue and the queued set unchanged,
\* with no discovery for the candidate.
C7_MinimumSkip ==
  [][ (pc = "fetch" /\ fetchedCount' >= 0 /\ fetchedCount' < minScoredAnime) =>
        /\ skippedUsers' = skippedUsers + 1
        /\ insertedUsers' = insertedUsers
        /\ failedUsers' = failedUsers
        /\ db' = db
        /\ queue' = queue
        /\ queued' = queued
        /\ pc' = "loop"
    ]_vars

\* C7 witness: a candidate with one rating under a threshold of two was
\* skipped.
C7_Witness ==
  event = "skipMinimum" /\ fetchedCount = 1 /\ minScoredAnime = 2 /\ skippedUsers >= 1

\* C8: a dequeued candidate whose anonymized id is stored causes no rating
\* fetch and no store write, adds 1 to skippedUsers, and its stored top-N
\* ratings seed discovery whatever the minimum threshold.
C8_ExistingUser ==
  [][ ( /\ pc = "loop" /\ Len(decided') > Len(decided) /\ pc' # "crashed"
        /\ <<salt, toLowerCase(trim(Head(queue)))>> \in db.users ) =>
        /\ malFetches' = malFetches
        /\ pc' # "fetch"
        /\ db' = db
        /\ skippedUsers' = skippedUsers + 1
        /\ insertedUsers' = insertedUsers
        /\ failedUsers' = failedUsers
        /\ IsTopN(discoveryRatings', db, <<salt, toLowerCase(trim(Head(queue)))>>,
                  discoveryAnimePerUser)
        /\ (updatesPagesPerAnime > 0 /\ discoveryRatings' # <<>>) =>
             pc' = "discover" /\ seedIdx' = 1 /\ page' = 1
    ]_vars

\* C8 witness: a stored user with fewer ratings than the threshold seeds
\* discovery.
C8_Witness ==
  /\ event = "skipExisting"
  /\ pc = "discover"
  /\ Len(discoveryRatings) >= 1
  /\ Cardinality({ k \in DOMAIN db.ratings : k[1] = <<salt, toLowerCase(trim(username))>> })
       < minScoredAnime

\* C9: the pages of a seed item are requested in the order 1, 2, ... up to
\* updatesPagesPerAnime; after a page that fails or has no username the next
\* request is page 1 of the next seed item (or the loop head after the last
\* one); a failed page neither ends the crawl nor counts in failedUsers.
C9_DiscoveryProtocol ==
  [][ /\ (pc # "discover" /\ pc' = "discover") => seedIdx' = 1 /\ page' = 1
      /\ pc = "discover" =>
           LET stopped == event' \in {"updatesFailed", "updatesEmpty"}
               nSeeds  == IF discoveryAnimePerUser < Len(discoveryRatings)
                          THEN discoveryAnimePerUser ELSE Len(discoveryRatings)
           IN  /\ page \in 1..updatesPagesPerAnime
               /\ seedIdx \in 1..nSeeds
               /\ failedUsers' = failedUsers
               /\ pc' \in {"discover", "loop"}
               /\ discoveryRatings' = discoveryRatings
               /\ IF ~stopped /\ page < updatesPagesPerAnime
                  THEN pc' = "discover" /\ seedIdx' = seedIdx /\ page' = page + 1
                  ELSE IF seedIdx < nSeeds
                       THEN pc' = "discover" /\ seedIdx' = seedIdx + 1 /\ page' = 1
                       ELSE pc' = "loop"
    ]_vars

\* C9 witness: page 1 of the first of two seed items failed and the crawler
\* stands at page 1 of the second.
C9_Witness ==
  /\ event = "updatesFailed"
  /\ pc = "discover"
  /\ seedIdx = 2
  /\ page = 1
  /\ updatesPagesPerAnime = 2

\* C10: the candidates are dequeued in the order in which their keys were
\* enqueued, and the queue is what was enqueued and not yet dequeued, in
\* that order.
C10_Fifo ==
  /\ Len(deqLog) <= Len(enqLog)
  /\ \A i \in 1..Len(deqLog) : toLowerCase(trim(deqLog[i])) = enqLog[i]
  /\ Len(queue) = Len(enqLog) - Len(deqLog)
  /\ \A i \in 1..Len(queue) : toLowerCase(trim(queue[i])) = enqLog[Len(deqLog) + i]

\* C10 witness: two candidates were dequeued, the second one a discovered
\* username.
C10_Witness ==
  Len(deqLog) = 2 /\ discoveredUsers >= 1 /\ queue = <<>>

\* C11 as claimed: whenever the crawler is about to issue an external call
\* and has made one before, it has slept the configured delay of the source
\* of that earlier call since it came back (nothing when the delay is 0),
\* whether that call succeeded, failed or gave an empty page.
C11_DelayAfterEveryCall ==
  (pc \in {"prime", "fetch", "discover"} /\ lastCall # "none") =>
    sleptMs = (IF lastCall = "mal" THEN malDelayMs ELSE jikanDelayMs)

\* C12 as claimed: a run that ends on a refused numeric option has neither
\* opened nor queried the store and has made no network request.
C12_ConfigErrorBeforeActivity ==
  event = "configError" => (storeUse = "none" /\ lastCall = "none" /\ malFetches = 0)

\* Every rating row refers to a stored user and a stored item.
ReferencesExist(d) ==
  \A k \in DOMAIN d.ratings : k[1] \in d.users /\ k[2] \in DOMAIN d.anime

\* C13: the ingestion of a fetched user is one indivisible step: it leaves
\* the store as it was (an error at any statement of the batch) or with the
\* user row and every rating row of the batch, and in either case every
\* rating row refers to a stored user and a stored item.
C13_AtomicIngestion ==
  [][ pc = "fetch" =>
        LET userId == <<salt, toLowerCase(trim(username))>>
        IN  /\ \/ db' = db
               \/ /\ userId \in db'.users
                  /\ fetchedCount' >= 0
                  /\ Cardinality({ k \in DOMAIN db'.ratings : k[1] = userId }) = fetchedCount'
                  /\ \A k \in DOMAIN db.ratings :
                       k \in DOMAIN db'.ratings /\ db'.ratings[k] = db.ratings[k]
            /\ ReferencesExist(db) /\ ReferencesExist(db')
    ]_vars

\* C13 witness: the batch of a user with two ratings failed and the store
\* holds no row of that user.
C13_Witness ==
  /\ event = "insertFailed"
  /\ fetchedCount = 2
  /\ <<salt, toLowerCase(trim(username))>> \notin db.users
  /\ \A k \in DOMAIN db.ratings : k[1] # <<salt, toLowerCase(trim(username))>>

\* C26: once the run has counted the stored users, the store never holds
\* more than max(that count, target) users; a step of the run adds at most
\* one user, removes none, and adds none when the count has reached the
\* target.
C26_BudgetBound ==
  [][ /\ pc' \in {"prime", "loop", "fetch", "discover", "done"} =>
           Cardinality(db'.users) <=
             (IF currentUsers' > targetTotalUsers' THEN currentUsers' ELSE targetTotalUsers')
      /\ db.users \subseteq db'.users
      /\ Cardinality(db'.users) <= Cardinality(db.users) + 1
      /\ db'.users # db.users => Cardinality(db.users) < targetTotalUsers
    ]_vars

\* C26 witness: the run inserted a user, reached the target with it and
\* ended with a candidate still queued.
C26_Witness ==
  /\ pc = "done" /\ insertedUsers >= 1 /\ queue # <<>>
  /\ Cardinality(db.users) = targetTotalUsers

\* C27 as claimed: at every loop head insertedUsers + skippedUsers +
\* failedUsers is the number of candidates dequeued so far, which is the
\* size of the processed set, and insertedUsers is the number of users this
\* run added to the store.
C27_CounterAccounting ==
  pc = "loop" =>
    /\ insertedUsers + skippedUsers + failedUsers = Len(deqLog)
    /\ Len(deqLog) = Cardinality(processed)
    /\ insertedUsers = Cardinality(db.users) - currentUsers

\* C28: at every loop head the queued set is the set of the normalized
\* keys of the queue entries, no two entries have the same key, no entry is
\* empty, and no queued key is processed; the skips for an empty entry and
\* for a processed key right after a dequeue are never taken.
C28_FrontierConsistent ==
  /\ pc = "loop" =>
       /\ queued = { toLowerCase(trim(queue[i])) : i \in 1..Len(queue) }
       /\ \A i, j \in 1..Len(queue) :
            i # j => toLowerCase(trim(queue[i])) # toLowerCase(trim(queue[j]))
       /\ \A i \in 1..Len(queue) : queue[i] # <<>> /\ toLowerCase(trim(queue[i])) # <<>>
       /\ queued \cap processed = {}
  /\ event \notin {"alreadyProcessed", "emptyEntry"}

\* C28 witness: at a loop head after two discovery pages with usernames, one
\* candidate decided and one discovered username waiting: the second page
\* offered the processed or the queued key again.
C28_Witness ==
  /\ pc = "loop" /\ event = "updates" /\ updatesPagesPerAnime = 2
  /\ Cardinality(processed) = 1 /\ Len(queue) = 1 /\ discoveredUsers = 1
  /\ queued # {}

\* ------------------------------------------------------------------------
\* HTTP clients: fetchMalPage (mal.ts) and fetchJsonWithRetry (jikan.ts)
\* ------------------------------------------------------------------------
MAL_PAGE_SIZE == 300
MAL_MAX_RETRIES == 5
\* maxRetries = 4, the default of fetchJsonWithRetry that both callers use
JikanMaxRetries == 4
MalBackoffCapMs == 20000
JikanBackoffCapMs == 10000
\* Math.floor(Math.random() * 350) is one of 0..349
JitterRangeMs == 350
BackoffUnitMs == 1000

Max2(a, b) == IF a > b THEN a ELSE b

RECURSIVE Pow2(_)
Pow2(n) == IF n = 0 THEN 1 ELSE 2 * Pow2(n - 1)

\* What the servers answer: a status and a retry-after header (none, empty,
\* seconds, zero, a negative number, no number).
Statuses == {200, 404, 405, 408, 429, 500, 503}
NoHeader == <<"null">>
RetryAfterHeaders == { NoHeader, <<>>, <<"2">>, <<"0">>, <<"-", "3">>, <<"x">> }
Jitters == {0, 1, JitterRangeMs - 1}

MalRequests ==
  { [username |-> <<"a">>, offset |-> 0], [username |-> <<"b">>, offset |-> MAL_PAGE_SIZE] }
JikanRequests ==
  { [label |-> "Jikan users page=1"], [label |-> "Jikan anime/1/userupdates page=2"] }

\* response.ok
responseOk(st) == st \in 200..299

\* (variant: 408 is not retried)
isRetryableStatusWithout408(st) == st = 405 \/ st = 429 \/ st >= 500
isRetryableStatus(st) == st = 405 \/ st = 408 \/ st = 429 \/ st >= 500

\* const retryable = response.status === 429 || response.status >= 500
jikanRetryable(st) == st = 429 \/ st >= 500

\* retryAfterHeader ? Number.parseInt(retryAfterHeader, 10) : Number.NaN
retryAfterSeconds(header) ==
  IF header = NoHeader \/ header = <<>> THEN [nan |-> TRUE, value |-> 0]
  ELSE parseInt(header)

\* Number.isNaN(retryAfterSeconds) ? Math.min(1000 * 2 ** attempt, cap)
\*                                 : Math.max(retryAfterSeconds, 1) * 1000
\* (variant: the exponent is attempt + 1)
baseBackoffMsFromTwo(header, n, cap) ==
  LET seconds == retryAfterSeconds(header)
  IN  IF seconds.nan THEN Min2(BackoffUnitMs * Pow2(n + 1), cap)
      ELSE Max2(seconds.value, 1) * BackoffUnitMs
baseBackoffMs(header, n, cap) ==
  LET seconds == retryAfterSeconds(header)
  IN  IF seconds.nan THEN Min2(BackoffUnitMs * Pow2(n), cap)
      ELSE Max2(seconds.value, 1) * BackoffUnitMs

RetryInit ==
  /\ client \in {"mal", "jikan"}
  /\ request \in (IF client = "mal" THEN MalRequests ELSE JikanRequests)
  /\ attempt = 0 /\ requests = 0 /\ status = 0 /\ retryAfterHeader = NoHeader
  /\ sleptFor = 0 /\ result = "running" /\ error = <<>>
  /\ CrawlerIdle /\ GraphIdle /\ CollectIdle /\ RatingsIdle

\* ---- mal.ts 52-87: one pass of the loop of fetchMalPage ----
\* The throw after the loop (88-91) is never reached: the pass with
\* attempt = MAL_MAX_RETRIES returns or throws.
fetchMalPage ==
  /\ client = "mal" /\ result = "running"
  /\ \E st \in Statuses, hd \in RetryAfterHeaders, jitterMs \in Jitters :
       /\ requests' = requests + 1
       /\ status' = st
       /\ retryAfterHeader' = hd
       /\ IF responseOk(st)
          THEN result' = "ok" /\ UNCHANGED <<attempt, sleptFor, error>>
          ELSE IF isRetryableStatus(st) /\ attempt < MAL_MAX_RETRIES
               THEN /\ sleptFor' = baseBackoffMs(hd, attempt, MalBackoffCapMs) + jitterMs
                    /\ attempt' = attempt + 1
                    /\ UNCHANGED <<result, error>>
               ELSE /\ result' = "error"
                    /\ error' = [message |-> "MAL request failed", username |-> request.username,
                                 offset |-> request.offset, status |-> st]
                    /\ UNCHANGED <<attempt, sleptFor>>
  /\ UNCHANGED <<crawlerVars, graphVars, collectVars, ratingsVars, client, request>>

\* ---- jikan.ts 46-80: one pass of the loop of fetchJsonWithRetry ----
fetchJsonWithRetry ==
  /\ client = "jikan" /\ result = "running"
  /\ \E st \in Statuses, hd \in RetryAfterHeaders :
       /\ requests' = requests + 1
       /\ status' = st
       /\ retryAfterHeader' = hd
       /\ IF responseOk(st)
          THEN result' = "ok" /\ UNCHANGED <<attempt, sleptFor, error>>
          ELSE IF jikanRetryable(st) /\ attempt < JikanMaxRetries
               THEN /\ sleptFor' = baseBackoffMs(hd, attempt, JikanBackoffCapMs)
                    /\ attempt' = attempt + 1
                    /\ UNCHANGED <<result, error>>
               ELSE /\ result' = "error"
                    /\ error' = [message |-> "failed", label |-> request.label, status |-> st]
                    /\ UNCHANGED <<attempt, sleptFor>>
  /\ UNCHANGED <<crawlerVars, graphVars, collectVars, ratingsVars, client, request>>

\* ---- fetch(url) rejects (no response): nothing catches it ----
FetchThrows ==
  /\ result = "running"
  /\ requests' = requests + 1
  /\ status' = 0
  /\ retryAfterHeader' = NoHeader
  /\ result' = "error"
  /\ error' = [message |-> "fetch failed"]
  /\ UNCHANGED <<crawlerVars, graphVars, collectVars, ratingsVars, client, request, attempt, sleptFor>>

RetryNext == fetchMalPage \/ fetchJsonWithRetry \/ FetchThrows

SpecRetry == RetryInit /\ [][RetryNext]_vars

\* ------------------------------------------------------------------------
\* Properties of the HTTP clients
\* ------------------------------------------------------------------------

C15_BackoffDelayAsClaimed ==
  [][ (client = "mal" /\ attempt' = attempt + 1) =>
        LET h    == retryAfterSeconds(retryAfterHeader')
            base == IF ~h.nan /\ h.value >= 0 THEN h.value * 1000
                    ELSE IF 1000 * 2^attempt < 20000 THEN 1000 * 2^attempt ELSE 20000
        IN  sleptFor' - base \in 0..349
    ]_vars

\* C15 amended: the delay awaited before retry n of the rating client is
\* base + jitter with 0 <= jitter < 350, where base is max(h, 1) * 1000 when
\* the retry-after header starts with an integer h (so 0 and negative
\* numbers wait 1000 ms), and min(1000 * 2^n, 20000) when the header is
\* missing, empty or starts with no number.
C15_BackoffDelay ==
  [][ (client = "mal" /\ attempt' = attempt + 1) =>
        LET h    == retryAfterSeconds(retryAfterHeader')
            base == IF ~h.nan THEN (IF h.value >= 1 THEN h.value ELSE 1) * 1000
                    ELSE IF 1000 * 2^attempt < 20000 THEN 1000 * 2^attempt ELSE 20000
        IN  sleptFor' - base \in 0..349
    ]_vars

\* C15 witness: the fourth retry follows a 429 with retry-after 2 and waits
\* at least 2000 ms and less than 2350 ms, where the exponential value
\* would be 8000 ms.
C15_Witness ==
  /\ client = "mal" /\ result = "running" /\ attempt = 4
  /\ status = 429 /\ retryAfterHeader = <<"2">>
  /\ sleptFor >= 2000 /\ sleptFor < 2350

\* C16 as claimed: the discovery client decides as the rating client does,
\* with a budget of 4 retries and a cap of 10 s: OK ends with success; a
\* status of 405, 408, 429, 5xx is retried while fewer than 4 retries were
\* made, after the backoff of the rating client (hint or exponential, plus
\* jitter) under the 10 s cap; any other outcome ends with a labelled error.
C16_SameDiscipline ==
  [][ (client = "jikan" /\ result = "running" /\ status' # 0) =>
        IF responseOk(status') THEN result' = "ok"
        ELSE IF isRetryableStatus(status') /\ requests < 4
             THEN /\ result' = "running"
                  /\ attempt' = attempt + 1
                  /\ sleptFor' - baseBackoffMs(retryAfterHeader', requests, 10000)
                       \in 0..(JitterRangeMs - 1)
             ELSE result' = "error" /\ error'.label = request.label
    ]_vars

\* ------------------------------------------------------------------------
\* Graph builder (build-graph.ts)
\* ------------------------------------------------------------------------
\* users in the loaded dataset
MaxUsers == 3

\* The users of a snapshot as loadDatasetFromDb returns them: ratings in item
\* id order, one per item, raw scores as stored.  The user ids are digests:
\* their order says nothing about the ratings, so the users of a dataset
\* come in any order.
RawRatingsOf ==
  [u1 |-> << <<1, 8>>, <<2, 6>>, <<3, 4>> >>,
   u2 |-> << <<1, 4>>, <<2, 4>>, <<3, 10>> >>,
   u3 |-> << <<1, 1>>, <<2, 2>>, <<3, 2>> >>,
   u4 |-> << <<2, 7>> >>,
   u5 |-> << <<1, 5>>, <<3, 9>> >>]
UserIds == DOMAIN RawRatingsOf
GraphAnime == {1, 2, 3}

\* Weights are rationals with a denominator that divides the number of
\* ratings of a user, times 2 for the pair score, times 2 for every blend;
\* they are kept multiplied by WeightScale.
WeightScale == Factorial(Cardinality(GraphAnime)) * 2 * Pow2(MaxUsers)

\* What the store holds as normalized_score of a rating: the default of the
\* column (never recomputed), or raw minus a mean that is out of date.
StoredScores == {"default", "stale"}
storedNormalizedScore(kind, rawScore) ==
  IF kind = "default" THEN 0 ELSE (rawScore - 5) * WeightScale

loadedUser(userId, kind) ==
  [userId |-> userId,
   ratings |-> [i \in 1..Len(RawRatingsOf[userId]) |->
                  [animeId |-> RawRatingsOf[userId][i][1],
                   title |-> TitleOf(RawRatingsOf[userId][i][1]),
                   rawScore |-> RawRatingsOf[userId][i][2],
                   normalizedScore |->
                     storedNormalizedScore(kind, RawRatingsOf[userId][i][2])]]]

Datasets ==
  { [i \in 1..Len(ids) |-> loadedUser(ids[i], kind)] :
      ids \in { q \in SeqsUpTo(UserIds, MaxUsers) :
                  \A i, j \in 1..Len(q) : i # j => q[i] # q[j] },
      kind \in StoredScores }

RatingCaps == {0, 1, 2}
EdgeCaps == {0, 1, 2}

RECURSIVE sumRawScore(_)
sumRawScore(rs) == IF rs = <<>> THEN 0 ELSE Head(rs).rawScore + sumRawScore(Tail(rs))

\* avg = sum / Math.max(length, 1); rating.normalizedScore = rating.rawScore - avg
\* (variants: the mean is not subtracted; the loaded scores are kept)
normalizeUserKeepsRaw(user) ==
  [user EXCEPT !.ratings = [i \in 1..Len(user.ratings) |->
     [user.ratings[i] EXCEPT !.normalizedScore = user.ratings[i].rawScore * WeightScale]]]
normalizeUserKeepsLoaded(user) == user
normalizeUser(user) ==
  LET avg == (sumRawScore(user.ratings) * WeightScale) \div Max2(Len(user.ratings), 1)
  IN  [user EXCEPT !.ratings = [i \in 1..Len(user.ratings) |->
        [user.ratings[i] EXCEPT
           !.normalizedScore = user.ratings[i].rawScore * WeightScale - avg]]]

\* Number(value.toFixed(4)): the nearest multiple of 0.0001, a tie going away
\* from zero; the result is counted in units of 0.0001.
RoundDiv(num, den) ==
  IF num >= 0 THEN (2 * num + den) \div (2 * den)
  ELSE 0 - ((2 * (0 - num) + den) \div (2 * den))
roundWeight(value) == RoundDiv(value * 10000, WeightScale)

\* maxRatingsPerUser > 0 ? user.ratings.slice(0, maxRatingsPerUser) : user.ratings
userRatingsOf(user, maxRatings) ==
  IF maxRatings > 0 THEN slice(user.ratings, maxRatings) ELSE user.ratings

userNodeId(userId) == <<"user", userId>>
animeNodeId(animeId) == <<"anime", animeId>>
\* nodes.has   (variant: never)
hasNodeNever(ns, id) == FALSE
hasNode(ns, id) == \E i \in 1..Len(ns) : ns[i].id = id

\* Map.set: a new key goes last, a known key keeps its place
setNode(ns, node) ==
  IF hasNode(ns, node.id)
  THEN [i \in 1..Len(ns) |-> IF ns[i].id = node.id THEN node ELSE ns[i]]
  ELSE Append(ns, node)

\* lines 235-252: the item nodes and the user-item edges of one user
RECURSIVE addRatings(_, _, _)
addRatings(g, userId, rs) ==
  IF rs = <<>> THEN g
  ELSE LET rating == Head(rs)
           id     == animeNodeId(rating.animeId)
       IN  addRatings(
             [nodes |-> IF hasNode(g.nodes, id) THEN g.nodes
                        ELSE setNode(g.nodes, [id |-> id, label |-> rating.title,
                                               nodeType |-> "anime"]),
              edges |-> Append(g.edges,
                          [id |-> <<"ua", userId, rating.animeId>>,
                           source |-> userNodeId(userId),
                           target |-> id,
                           edgeType |-> "user-anime",
                           weight |-> roundWeight(rating.normalizedScore)])],
             userId, Tail(rs))

\* lines 223-252
addUser(g, user, maxRatings) ==
  addRatings(
    [nodes |-> setNode(g.nodes, [id |-> userNodeId(user.userId),
                                 label |-> <<"User", user.userId>>,
                                 nodeType |-> "user"]),
     edges |-> g.edges],
    user.userId, userRatingsOf(user, maxRatings))

\* const key = `${low}:${high}` with low = Math.min, high = Math.max
\* (variant: the ids as the pass meets them)
pairKeyAsMet(a, b) == <<a, b>>
pairKey(a, b) == <<Min2(a, b), Max2(a, b)>>

\* (left.normalizedScore + right.normalizedScore) / 2   (variant: the sum)
userPairScoreSum(l, r) == l.normalizedScore + r.normalizedScore
userPairScore(l, r) == (l.normalizedScore + r.normalizedScore) \div 2

\* (current + userPairScore) / 2
\* (variants: the weight is kept; the contribution replaces the weight)
blendKeepsCurrent(current, score) == current
blendLatestWins(current, score) == score
blend(current, score) == (current + score) \div 2

\* maxAnimeAnimeEdges > 0 && animePairEdgeWeights.size >= maxAnimeAnimeEdges
\* (variant: > for >=)
capReachedOffByOne(size, maxEdges) == maxEdges > 0 /\ size > maxEdges
capReached(size, maxEdges) == maxEdges > 0 /\ size >= maxEdges

\* animePairEdgeWeights.get(key): the place of the key, 0 for undefined
weightAt(ws, key) ==
  IF \E i \in 1..Len(ws) : ws[i].key = key
  THEN CHOOSE i \in 1..Len(ws) : ws[i].key = key
  ELSE 0

\* lines 255-273: one (i, j) pass; acc is the map (in insertion order) and
\* the counter
aggregatePair(acc, l, r, maxEdges) ==
  LET key   == pairKey(l.animeId, r.animeId)
      score == userPairScore(l, r)
      at    == weightAt(acc.weights, key)
  IN  IF at = 0 /\ capReached(Len(acc.weights), maxEdges)
      THEN [weights |-> acc.weights, skipped |-> acc.skipped + 1]
      ELSE IF at = 0
           THEN [weights |-> Append(acc.weights, [key |-> key, weight |-> score]),
                 skipped |-> acc.skipped]
           ELSE [weights |-> [acc.weights EXCEPT ![at] =
                                [key |-> key, weight |-> blend(acc.weights[at].weight, score)]],
                 skipped |-> acc.skipped]

\* The (i, j) after (i, j) in the two loops over n ratings; <<0, 0>> at the end.
nextPair(i, j, n) ==
  IF j < n THEN <<i, j + 1>>
  ELSE IF i + 2 <= n THEN <<i + 1, i + 2>>
  ELSE <<0, 0>>

\* lines 254-275 from the pass (i, j) on
RECURSIVE aggregatePairs(_, _, _, _, _)
aggregatePairs(acc, rs, i, j, maxEdges) ==
  IF i = 0 \/ Len(rs) < 2 THEN acc
  ELSE aggregatePairs(aggregatePair(acc, rs[i], rs[j], maxEdges), rs,
                      nextPair(i, j, Len(rs))[1], nextPair(i, j, Len(rs))[2], maxEdges)

\* lines 278-287: one item-item edge per entry of the map
pairEdges(ws) ==
  [i \in 1..Len(ws) |->
     [id |-> <<"aa", ws[i].key[1], ws[i].key[2]>>,
      source |-> animeNodeId(ws[i].key[1]),
      target |-> animeNodeId(ws[i].key[2]),
      edgeType |-> "anime-anime",
      weight |-> roundWeight(ws[i].weight)]]

\* lines 289-305 (generatedAt, the time of the build, is left out)
graphOf(ns, es) ==
  LET userCount == Cardinality({ i \in 1..Len(ns) : ns[i].nodeType = "user" })
  IN  [nodeCount |-> Len(ns),
       edgeCount |-> Len(es),
       userCount |-> userCount,
       animeCount |-> Len(ns) - userCount,
       nodes |-> ns,
       edges |-> es]

\* lines 222-276: the users from the first of `users` on
RECURSIVE processUsers(_, _, _, _)
processUsers(st, users, maxRatings, maxEdges) ==
  IF users = <<>> THEN st
  ELSE LET g   == addUser([nodes |-> st.nodes, edges |-> st.edges], Head(users), maxRatings)
           acc == aggregatePairs([weights |-> st.weights, skipped |-> st.skipped],
                                 userRatingsOf(Head(users), maxRatings), 1, 2, maxEdges)
       IN  processUsers([nodes |-> g.nodes, edges |-> g.edges,
                         weights |-> acc.weights, skipped |-> acc.skipped],
                        Tail(users), maxRatings, maxEdges)

createGraph(users, maxRatings, maxEdges) ==
  LET st == processUsers([nodes |-> <<>>, edges |-> <<>>, weights |-> <<>>, skipped |-> 0],
                         users, maxRatings, maxEdges)
  IN  [graph |-> graphOf(st.nodes, st.edges \o pairEdges(st.weights)),
       skippedNewAnimeAnimePairs |-> st.skipped,
       maxAnimeAnimeEdges |-> maxEdges]

\* node.id.startsWith(prefix) ? node.id.slice(prefix.length) : node.id
stripPrefix(id, prefix) == IF id[1] = prefix THEN id[2] ELSE id

\* Map.get of a map from the entries of a list to their places, counted
\* from 0; -1 stands for undefined.
indexOf(list, x) ==
  IF \E i \in 1..Len(list) : list[i] = x
  THEN (CHOOSE i \in 1..Len(list) : list[i] = x) - 1
  ELSE -1

\* array[index] with places counted from 0; <<>> stands for undefined
\* (variant: places counted from 1)
at0FromOne(array, index) ==
  IF index \in 1..Len(array) THEN <<array[index]>> ELSE <<>>
at0(array, index) ==
  IF index \in 0..(Len(array) - 1) THEN <<array[index + 1]>> ELSE <<>>

\* build-graph.ts 369-388: the user ids and the items of the node list; c
\* also keeps the node ids, the keys of the two index maps, in index order.
RECURSIVE compactNodes(_, _)
compactNodes(c, ns) ==
  IF ns = <<>> THEN c
  ELSE LET node == Head(ns)
           animeId == parseInt(RawOf(stripPrefix(node.id, "anime")))
       IN  compactNodes(
             IF node.nodeType = "user"
             THEN [c EXCEPT !.userIds = Append(@, stripPrefix(node.id, "user")),
                            !.userNodeIds = Append(@, node.id)]
             ELSE IF animeId.nan THEN c
             ELSE [c EXCEPT !.anime = Append(@, <<animeId.value, node.label>>),
                            !.animeNodeIds = Append(@, node.id)],
             Tail(ns))

\* build-graph.ts 393-415: one triple per edge whose ends are indexed
RECURSIVE compactEdges(_, _)
compactEdges(c, es) ==
  IF es = <<>> THEN c
  ELSE LET edge == Head(es)
           sourceUser  == indexOf(c.userNodeIds, edge.source)
           targetAnime == indexOf(c.animeNodeIds, edge.target)
           sourceAnime == indexOf(c.animeNodeIds, edge.source)
           targetUser  == indexOf(c.userNodeIds, edge.target)
       IN  compactEdges(
             IF edge.edgeType = "user-anime"
             THEN IF sourceUser # -1 /\ targetAnime # -1
                  THEN [c EXCEPT !.ua = Append(@, <<sourceUser, targetAnime, edge.weight>>)]
                  ELSE IF targetUser # -1 /\ sourceAnime # -1
                       THEN [c EXCEPT !.ua = Append(@, <<targetUser, sourceAnime, edge.weight>>)]
                       ELSE c
             ELSE IF sourceAnime = -1 \/ targetAnime = -1 THEN c
                  ELSE [c EXCEPT !.aa = Append(@, <<sourceAnime, targetAnime, edge.weight>>)],
             Tail(es))

\* build-graph.ts 363-430 (generatedAt is left out)
createCompactGraph(g) ==
  LET c == compactEdges(
             compactNodes([userIds |-> <<>>, anime |-> <<>>, ua |-> <<>>, aa |-> <<>>,
                           userNodeIds |-> <<>>, animeNodeIds |-> <<>>], g.nodes),
             g.edges)
  IN  [format |-> "graph-compact-v1",
       userIds |-> c.userIds,
       anime |-> c.anime,
       ua |-> c.ua,
       aa |-> c.aa,
       userCount |-> Len(c.userIds),
       animeCount |-> Len(c.anime),
       nodeCount |-> Len(c.userIds) + Len(c.anime),
       edgeCount |-> Len(c.ua) + Len(c.aa)]

\* main.ts 2855-2883: the edges of the triples whose two places hold a node
\* id; ends gives the list of node ids and the list of ids of each side.
\* The ids of the model have fewer than 8 characters: slice(0, 8) keeps them.
RECURSIVE expandEdges(_, _, _, _)
expandEdges(triples, tag, type, ends) ==
  IF triples = <<>> THEN <<>>
  ELSE LET t      == Head(triples)
           source == at0(ends.sourceNodeIds, t[1])
           target == at0(ends.targetNodeIds, t[2])
           rest   == expandEdges(Tail(triples), tag, type, ends)
       IN  IF source = <<>> \/ target = <<>> THEN rest
           ELSE << [id |-> <<tag, ends.sourceIds[t[1] + 1], ends.targetIds[t[2] + 1]>>,
                    source |-> source[1],
                    target |-> target[1],
                    edgeType |-> type,
                    weight |-> t[3]] >> \o rest

\* main.ts 2814-2883 (generatedAt is left out)
expandCompactGraphData(compact) ==
  LET userNodeIds  == [i \in 1..Len(compact.userIds) |-> <<"user", compact.userIds[i]>>]
      animeNodeIds == [i \in 1..Len(compact.anime) |-> <<"anime", compact.anime[i][1]>>]
      animeIds     == [i \in 1..Len(compact.anime) |-> compact.anime[i][1]]
      ns == [i \in 1..Len(userNodeIds) |->
               [id |-> userNodeIds[i], label |-> <<"User", compact.userIds[i]>>,
                nodeType |-> "user"]]
            \o [i \in 1..Len(animeNodeIds) |->
                  [id |-> animeNodeIds[i], label |-> compact.anime[i][2],
                   nodeType |-> "anime"]]
      es == expandEdges(compact.ua, "ua", "user-anime",
                        [sourceNodeIds |-> userNodeIds, targetNodeIds |-> animeNodeIds,
                         sourceIds |-> compact.userIds, targetIds |-> animeIds])
            \o expandEdges(compact.aa, "aa", "anime-anime",
                           [sourceNodeIds |-> animeNodeIds, targetNodeIds |-> animeNodeIds,
                            sourceIds |-> animeIds, targetIds |-> animeIds])
  IN  [nodeCount |-> Len(ns),
       edgeCount |-> Len(es),
       userCount |-> compact.userCount,
       animeCount |-> compact.animeCount,
       nodes |-> ns,
       edges |-> es]

\* ---- the build script ----
GraphInit ==
  /\ dataset \in Datasets
  /\ snapshot = dataset
  /\ maxRatingsPerUser \in RatingCaps
  /\ maxAnimeAnimeEdges \in EdgeCaps
  /\ nodes = <<>> /\ edges = <<>> /\ animePairEdgeWeights = <<>>
  /\ skippedNewAnimeAnimePairs = 0
  /\ userAt = 0 /\ left = 0 /\ right = 0
  /\ phase = "loaded" /\ graph = <<>> /\ contributions = <<>>
  /\ compactGraph = <<>> /\ loaded = <<>>
  /\ CrawlerIdle /\ RetryIdle /\ CollectIdle /\ RatingsIdle

\* Where the user loop stands after the user at place u.
afterUser(u) ==
  IF u < Len(dataset) THEN [phase |-> "user", userAt |-> u + 1]
  ELSE [phase |-> "emit", userAt |-> u]

\* ---- lines 142-149: the normalized scores are computed again in memory ----
NormalizeDataset ==
  /\ phase = "loaded"
  /\ dataset' = [i \in 1..Len(dataset) |-> normalizeUser(dataset[i])]
  /\ phase' = afterUser(0).phase
  /\ userAt' = afterUser(0).userAt
  /\ UNCHANGED <<crawlerVars, retryVars, collectVars, ratingsVars, snapshot,
                 maxRatingsPerUser, maxAnimeAnimeEdges, nodes, edges,
                 animePairEdgeWeights, skippedNewAnimeAnimePairs, left, right, graph,
                 contributions, compactGraph, loaded>>

\* ---- lines 222-252: the node of the user, the item nodes, the user-item edges ----
BeginUser ==
  /\ phase = "user"
  /\ LET g == addUser([nodes |-> nodes, edges |-> edges], dataset[userAt], maxRatingsPerUser)
         n == Len(userRatingsOf(dataset[userAt], maxRatingsPerUser))
     IN  /\ nodes' = g.nodes
         /\ edges' = g.edges
         /\ IF n >= 2
            THEN phase' = "pairs" /\ left' = 1 /\ right' = 2 /\ UNCHANGED userAt
            ELSE /\ phase' = afterUser(userAt).phase
                 /\ userAt' = afterUser(userAt).userAt
                 /\ UNCHANGED <<left, right>>
  /\ UNCHANGED <<crawlerVars, retryVars, collectVars, ratingsVars, graphArgs, animePairEdgeWeights,
                 skippedNewAnimeAnimePairs, graph, contributions, compactGraph, loaded>>

\* ---- lines 254-275: the pass (left, right) of the pair loops ----
PairStep ==
  /\ phase = "pairs"
  /\ LET rs   == userRatingsOf(dataset[userAt], maxRatingsPerUser)
         acc  == aggregatePair([weights |-> animePairEdgeWeights,
                                skipped |-> skippedNewAnimeAnimePairs],
                               rs[left], rs[right], maxAnimeAnimeEdges)
         next == nextPair(left, right, Len(rs))
     IN  /\ animePairEdgeWeights' = acc.weights
         /\ skippedNewAnimeAnimePairs' = acc.skipped
         /\ contributions' = Append(contributions,
              [key |-> pairKey(rs[left].animeId, rs[right].animeId),
               score |-> userPairScore(rs[left], rs[right]),
               kept |-> acc.skipped = skippedNewAnimeAnimePairs])
         /\ IF next[1] # 0
            THEN left' = next[1] /\ right' = next[2] /\ UNCHANGED <<phase, userAt>>
            ELSE /\ phase' = afterUser(userAt).phase
                 /\ userAt' = afterUser(userAt).userAt
                 /\ left' = 0 /\ right' = 0
  /\ UNCHANGED <<crawlerVars, retryVars, collectVars, ratingsVars, graphArgs, nodes, edges,
                 graph, compactGraph, loaded>>

\* ---- lines 278-305: the item-item edges and the returned graph ----
EmitGraph ==
  /\ phase = "emit"
  /\ edges' = edges \o pairEdges(animePairEdgeWeights)
  /\ graph' = graphOf(nodes, edges')
  /\ phase' = "done"
  /\ UNCHANGED <<crawlerVars, retryVars, collectVars, ratingsVars, graphArgs, nodes, animePairEdgeWeights,
                 skippedNewAnimeAnimePairs, userAt, left, right, contributions,
                 compactGraph, loaded>>

\* ---- lines 169-185: the compact graph is written (the default) ----
WriteCompact ==
  /\ phase = "done"
  /\ compactGraph' = createCompactGraph(graph)
  /\ phase' = "written"
  /\ UNCHANGED <<crawlerVars, retryVars, collectVars, ratingsVars, graphArgs, nodes, edges,
                 animePairEdgeWeights, skippedNewAnimeAnimePairs, userAt, left, right,
                 graph, contributions, loaded>>

\* ---- main.ts 2814-2883: the web client expands the compact graph ----
LoadGraph ==
  /\ phase = "written"
  /\ loaded' = expandCompactGraphData(compactGraph)
  /\ phase' = "shown"
  /\ UNCHANGED <<crawlerVars, retryVars, collectVars, ratingsVars, graphArgs, nodes, edges,
                 animePairEdgeWeights, skippedNewAnimeAnimePairs, userAt, left, right,
                 graph, contributions, compactGraph>>

GraphNext ==
  \/ NormalizeDataset
  \/ BeginUser
  \/ PairStep
  \/ EmitGraph
  \/ WriteCompact
  \/ LoadGraph

SpecGraph == GraphInit /\ [][GraphNext]_vars

\* The steps of the build give what createGraph gives for the dataset.
BuildIsCreateGraph ==
  phase = "done" =>
    /\ graph = createGraph(dataset, maxRatingsPerUser, maxAnimeAnimeEdges).graph
    /\ skippedNewAnimeAnimePairs =
         createGraph(dataset, maxRatingsPerUser, maxAnimeAnimeEdges).skippedNewAnimeAnimePairs

\* ------------------------------------------------------------------------
\* Properties of the graph builder
\* ------------------------------------------------------------------------
\* Weights of edges are counted in units of 0.0001: 2 is 20000.

EdgesOfType(g, type) == { i \in 1..Len(g.edges) : g.edges[i].edgeType = type }

\* The graph of one user with raw scores raw[1..k] on the items id[1..k] and
\* no truncation: 1 user node, k item nodes, k user-item edges of weight
\* raw - mean, k(k-1)/2 item-item edges of weight (norm_a + norm_b)/2.
SingleUserShape(g, user) ==
  LET k      == Len(user.ratings)
      sum    == sumRawScore(user.ratings)
      normK(i) == k * user.ratings[i].rawScore - sum
      ua     == EdgesOfType(g, "user-anime")
      aa     == EdgesOfType(g, "anime-anime")
  IN  /\ g.userCount = 1
      /\ g.animeCount = k
      /\ g.nodeCount = 1 + k
      /\ g.edgeCount = k + (k * (k - 1)) \div 2
      /\ Cardinality(ua) = k
      /\ Cardinality(aa) = (k * (k - 1)) \div 2
      /\ \A i \in 1..k : \E e \in ua :
           /\ g.edges[e].source = <<"user", user.userId>>
           /\ g.edges[e].target = <<"anime", user.ratings[i].animeId>>
           /\ g.edges[e].weight = RoundDiv(10000 * normK(i), k)
      /\ \A i, j \in 1..k : i < j => \E e \in aa :
           /\ {g.edges[e].source, g.edges[e].target} =
                {<<"anime", user.ratings[i].animeId>>, <<"anime", user.ratings[j].animeId>>}
           /\ g.edges[e].weight = RoundDiv(10000 * (normK(i) + normK(j)), 2 * k)

\* The example: raw 8, 6, 4 on the items 1, 2, 3.
ExampleShape(g) ==
  /\ g.userCount = 1 /\ g.animeCount = 3 /\ g.edgeCount = 6
  /\ [i \in 1..6 |-> g.edges[i].weight] = <<20000, 0, -20000, 10000, 0, -10000>>
  /\ [i \in 4..6 |-> <<g.edges[i].source[2], g.edges[i].target[2]>>]
       = [i \in 4..6 |-> IF i = 4 THEN <<1, 2>> ELSE IF i = 5 THEN <<1, 3>> ELSE <<2, 3>>]

IsExample(user) ==
  [i \in 1..Len(user.ratings) |-> user.ratings[i].rawScore] = <<8, 6, 4>>

\* Neither cap cuts the graph of the single user.
CapsIdle ==
  LET k == Len(dataset[1].ratings)
  IN  /\ maxRatingsPerUser = 0 \/ maxRatingsPerUser >= k
      /\ maxAnimeAnimeEdges = 0 \/ maxAnimeAnimeEdges >= (k * (k - 1)) \div 2

RECURSIVE KeptScores(_, _)
KeptScores(log, key) ==
  IF log = <<>> THEN <<>>
  ELSE IF Head(log).key = key /\ Head(log).kept
       THEN <<Head(log).score>> \o KeptScores(Tail(log), key)
       ELSE KeptScores(Tail(log), key)

\* s1 after the first contribution, (previous + s) / 2 after each later one
RECURSIVE Blended(_)
Blended(scores) ==
  IF Len(scores) = 1 THEN scores[1]
  ELSE (Blended(SubSeq(scores, 1, Len(scores) - 1)) + scores[Len(scores)]) \div 2

\* C18: the running weight of a pair key that received the contributions
\* s1, ..., sn in processing order is s1 after the first and
\* (previous + s)/2 after each later s: (s1+s2)/2 for two,
\* ((s1+s2)/2 + s3)/2 for three.
C18_BlendRule ==
  \A i \in 1..Len(animePairEdgeWeights) :
    LET ss == KeptScores(contributions, animePairEdgeWeights[i].key)
        w  == animePairEdgeWeights[i].weight
    IN  /\ Len(ss) >= 1
        /\ w = Blended(ss)
        /\ Len(ss) = 1 => w = ss[1]
        /\ Len(ss) = 2 => 2 * w = ss[1] + ss[2]
        /\ Len(ss) = 3 => 4 * w = ss[1] + ss[2] + 2 * ss[3]

\* C18 witness: a key with three contributions whose weight is not their
\* arithmetic mean.
C18_Witness ==
  \E i \in 1..Len(animePairEdgeWeights) :
    LET ss == KeptScores(contributions, animePairEdgeWeights[i].key)
    IN  /\ Len(ss) = 3
        /\ 3 * animePairEdgeWeights[i].weight # ss[1] + ss[2] + ss[3]

TrackedKeys(ws) == { ws[i].key : i \in 1..Len(ws) }

\* C19: with maxAnimeAnimeEdges = K > 0 the map never holds more than K
\* keys and the graph has at most K item-item edges; an encounter of an
\* untracked key when K keys exist changes nothing but the skipped counter,
\* which grows by 1; every other encounter leaves the counter alone, a
\* tracked key getting (previous + score)/2 and a new key its score; with
\* K = 0 nothing is refused and the counter stays 0.
C19_PairEdgeCap ==
  [][ /\ phase = "pairs" =>
           LET rs      == IF maxRatingsPerUser > 0
                          THEN SubSeq(dataset[userAt].ratings, 1,
                                      Min2(maxRatingsPerUser, Len(dataset[userAt].ratings)))
                          ELSE dataset[userAt].ratings
               a       == rs[left].animeId
               b       == rs[right].animeId
               key     == IF a < b THEN <<a, b>> ELSE <<b, a>>
               score   == (rs[left].normalizedScore + rs[right].normalizedScore) \div 2
               tracked == key \in TrackedKeys(animePairEdgeWeights)
               K       == maxAnimeAnimeEdges
               old(k)  == animePairEdgeWeights[CHOOSE i \in 1..Len(animePairEdgeWeights) :
                                                 animePairEdgeWeights[i].key = k].weight
               new(k)  == animePairEdgeWeights'[CHOOSE i \in 1..Len(animePairEdgeWeights') :
                                                  animePairEdgeWeights'[i].key = k].weight
           IN  /\ Cardinality(TrackedKeys(animePairEdgeWeights')) = Len(animePairEdgeWeights')
               /\ K > 0 => Len(animePairEdgeWeights') <= K
               /\ K = 0 => skippedNewAnimeAnimePairs' = 0
               /\ IF ~tracked /\ K > 0 /\ Len(animePairEdgeWeights) >= K
                  THEN /\ animePairEdgeWeights' = animePairEdgeWeights
                       /\ skippedNewAnimeAnimePairs' = skippedNewAnimeAnimePairs + 1
                  ELSE /\ skippedNewAnimeAnimePairs' = skippedNewAnimeAnimePairs
                       /\ TrackedKeys(animePairEdgeWeights') =
                            TrackedKeys(animePairEdgeWeights) \cup {key}
                       /\ new(key) = IF tracked THEN (old(key) + score) \div 2 ELSE score
                       /\ \A k \in TrackedKeys(animePairEdgeWeights) \ {key} : new(k) = old(k)
      /\ phase # "pairs" =>
           /\ animePairEdgeWeights' = animePairEdgeWeights
           /\ skippedNewAnimeAnimePairs' = skippedNewAnimeAnimePairs
      /\ (phase' = "done" /\ maxAnimeAnimeEdges > 0) =>
           Cardinality(EdgesOfType(graph', "anime-anime")) <= maxAnimeAnimeEdges
    ]_vars

\* C19 witness: under a cap of 1 a new key was refused and a later
\* contribution to the tracked key was blended.
C19_Witness ==
  /\ maxAnimeAnimeEdges = 1
  /\ skippedNewAnimeAnimePairs >= 1
  /\ Len(animePairEdgeWeights) = 1
  /\ \E i, j \in 1..Len(contributions) :
       /\ i < j
       /\ ~contributions[i].kept
       /\ contributions[j].kept
       /\ contributions[j].score # animePairEdgeWeights[1].weight

UserOrders(n) == { p \in [1..n -> 1..n] : \A i, j \in 1..n : i # j => p[i] # p[j] }

\* The nodes and the edges of a graph, whatever their order in the lists.
Content(g) ==
  [nodes |-> { g.nodes[i] : i \in 1..Len(g.nodes) },
   edges |-> { g.edges[i] : i \in 1..Len(g.edges) }]

\* The graph createGraph gives for the users of the dataset in the order p.
Reordered(p) ==
  createGraph([i \in 1..Len(dataset) |-> dataset[p[i]]], maxRatingsPerUser,
              maxAnimeAnimeEdges)

\* C20 as claimed: the nodes, the edges and every edge weight of the built
\* graph are the same for every order of the users, whatever the caps.
C20_OrderIrrelevant ==
  phase = "done" =>
    \A p \in UserOrders(Len(dataset)) : Content(Reordered(p).graph) = Content(graph)

\* C20 amended: for every order of the users the built graph has the same
\* nodes and the same user-item edges with the same weights; when no pair
\* is refused it has the same item-item edges, and those that received at
\* most two contributions have the same weight.
C20_OrderIrrelevantPart ==
  phase = "done" =>
    \A p \in UserOrders(Len(dataset)) :
      LET other == Reordered(p)
          mine  == Content(graph)
          its   == Content(other.graph)
          ofType(c, type) == { e \in c.edges : e.edgeType = type }
      IN  /\ its.nodes = mine.nodes
          /\ ofType(its, "user-anime") = ofType(mine, "user-anime")
          /\ (skippedNewAnimeAnimePairs = 0) = (other.skippedNewAnimeAnimePairs = 0)
          /\ skippedNewAnimeAnimePairs = 0 =>
               /\ { e.id : e \in ofType(its, "anime-anime") } =
                    { e.id : e \in ofType(mine, "anime-anime") }
               /\ \A e \in ofType(mine, "anime-anime") :
                    Len(KeptScores(contributions, <<e.id[2], e.id[3]>>)) <= 2 =>
                      e \in its.edges

\* C20 witness: three users were processed, no pair was refused, and a pair
\* received two contributions with different scores.
C20_Witness ==
  /\ phase = "done" /\ Len(dataset) = 3 /\ skippedNewAnimeAnimePairs = 0
  /\ \E i \in 1..Len(animePairEdgeWeights) :
       LET ss == KeptScores(contributions, animePairEdgeWeights[i].key)
       IN  Len(ss) = 2 /\ ss[1] # ss[2]

\* Every rating list of the dataset in the opposite order.
Mirrored(users) ==
  [u \in 1..Len(users) |->
     [users[u] EXCEPT !.ratings =
        [i \in 1..Len(users[u].ratings) |-> users[u].ratings[Len(users[u].ratings) + 1 - i]]]]

\* C21: a pass of the pair loops that meets the items a, b of a user as
\* (b, a) does to the aggregation map and the counter what the pass that
\* meets them as (a, b) does; the map never holds two slots for one unordered
\* pair and every key is (min, max); the builds of a dataset and of the same
\* dataset with every rating list reversed give, with no cap, the same
\* item-item edges: id aa:min:max, source anime:min, target anime:max, same
\* weight.
C21_PairKeyCanonical ==
  [][ /\ phase = "pairs" =>
           LET rs == IF maxRatingsPerUser > 0
                     THEN SubSeq(dataset[userAt].ratings, 1,
                                 Min2(maxRatingsPerUser, Len(dataset[userAt].ratings)))
                     ELSE dataset[userAt].ratings
               met == aggregatePair([weights |-> animePairEdgeWeights,
                                     skipped |-> skippedNewAnimeAnimePairs],
                                    rs[right], rs[left], maxAnimeAnimeEdges)
               ws  == animePairEdgeWeights'
           IN  /\ rs[left].animeId # rs[right].animeId
               /\ met.weights = ws
               /\ met.skipped = skippedNewAnimeAnimePairs'
               /\ \A i \in 1..Len(ws) : ws[i].key[1] < ws[i].key[2]
               /\ \A i, j \in 1..Len(ws) :
                    i # j => {ws[i].key[1], ws[i].key[2]} # {ws[j].key[1], ws[j].key[2]}
      /\ phase' = "done" =>
           LET aa == { graph'.edges[i] : i \in EdgesOfType(graph', "anime-anime") }
               other == createGraph(Mirrored(dataset), maxRatingsPerUser, maxAnimeAnimeEdges).graph
           IN  /\ \A e \in aa :
                    /\ e.id[1] = "aa" /\ e.id[2] < e.id[3]
                    /\ e.source = <<"anime", e.id[2]>>
                    /\ e.target = <<"anime", e.id[3]>>
               /\ \A e, f \in aa : {e.id[2], e.id[3]} = {f.id[2], f.id[3]} => e = f
               /\ (maxRatingsPerUser = 0 /\ maxAnimeAnimeEdges = 0) =>
                    { other.edges[i] : i \in EdgesOfType(other, "anime-anime") } = aa
    ]_vars

\* C21 witness: a build without caps of two users or more whose three
\* item-item edges come in another order when the rating lists are reversed.
C21_Witness ==
  /\ phase = "done" /\ Len(dataset) >= 2
  /\ maxRatingsPerUser = 0 /\ maxAnimeAnimeEdges = 0
  /\ Len(animePairEdgeWeights) = 3
  /\ createGraph(Mirrored(dataset), 0, 0).graph.edges # graph.edges

\* C22: the graph the web client expands from the compact graph has the
\* same set of nodes (id, label, nodeType), the same sequence of edges (id,
\* source, target, edgeType, weight) and the same nodeCount, edgeCount,
\* userCount and animeCount as the graph createGraph returned.
C22_CompactRoundTrip ==
  phase = "shown" =>
    /\ { loaded.nodes[i] : i \in 1..Len(loaded.nodes) }
         = { graph.nodes[i] : i \in 1..Len(graph.nodes) }
    /\ Len(loaded.nodes) = Len(graph.nodes)
    /\ loaded.edges = graph.edges
    /\ loaded.nodeCount = graph.nodeCount
    /\ loaded.edgeCount = graph.edgeCount
    /\ loaded.userCount = graph.userCount
    /\ loaded.animeCount = graph.animeCount

\* C22 witness: a graph of three users with item-item edges was expanded,
\* the nodes in another order than createGraph listed them.
C22_Witness ==
  /\ phase = "shown" /\ loaded.userCount = 3
  /\ loaded.nodes # graph.nodes
  /\ \E i \in 1..Len(loaded.edges) : loaded.edges[i].edgeType = "anime-anime"

RECURSIVE KeptRatings(_, _)
KeptRatings(users, maxRatings) ==
  IF users = <<>> THEN 0
  ELSE (IF maxRatings > 0 /\ maxRatings < Len(Head(users).ratings)
        THEN maxRatings ELSE Len(Head(users).ratings))
       + KeptRatings(Tail(users), maxRatings)

\* C29: for every snapshot (distinct user ids, distinct item ids per user)
\* and every cap setting the built graph has unique node ids and unique edge
\* ids, every edge joins two nodes of the node list, no item-item edge joins
\* an item to itself, nodeCount = userCount + animeCount = number of nodes,
\* and edgeCount = ratings kept after truncation + retained pair keys.
C29_WellFormed ==
  phase = "done" =>
    LET ns  == graph.nodes
        es  == graph.edges
        ids == { ns[i].id : i \in 1..Len(ns) }
    IN  /\ \A i, j \in 1..Len(dataset) : i # j => dataset[i].userId # dataset[j].userId
        /\ \A i, j \in 1..Len(ns) : i # j => ns[i].id # ns[j].id
        /\ \A i, j \in 1..Len(es) : i # j => es[i].id # es[j].id
        /\ \A i \in 1..Len(es) : es[i].source \in ids /\ es[i].target \in ids
        /\ \A i \in 1..Len(es) :
             es[i].edgeType = "anime-anime" => es[i].source # es[i].target
        /\ graph.nodeCount = graph.userCount + graph.animeCount
        /\ graph.nodeCount = Len(ns)
        /\ graph.userCount = Len(dataset)
        /\ graph.edgeCount = Len(es)
        /\ graph.edgeCount = KeptRatings(dataset, maxRatingsPerUser)
                               + Cardinality(TrackedKeys(animePairEdgeWeights))

\* C29 witness: three users, both caps cutting: ratings dropped and pairs
\* refused.
C29_Witness ==
  /\ phase = "done" /\ Len(dataset) = 3
  /\ maxRatingsPerUser = 2 /\ maxAnimeAnimeEdges = 1
  /\ skippedNewAnimeAnimePairs >= 1
  /\ KeptRatings(dataset, maxRatingsPerUser) < KeptRatings(dataset, 0)

\* The snapshot with other stored normalized scores.
StoredAs(kind) ==
  [i \in 1..Len(snapshot) |->
     [snapshot[i] EXCEPT !.ratings = [r \in 1..Len(snapshot[i].ratings) |->
        [snapshot[i].ratings[r] EXCEPT !.normalizedScore =
           IF kind = "default" THEN 0
           ELSE (snapshot[i].ratings[r].rawScore - 5) * WeightScale]]]]

\* C30: two snapshots with the same users, items and raw scores and
\* different stored normalized scores give the same node list, edge list and
\* weights: the build computes the normalized scores from the raw scores.
C30_StoredScoresIgnored ==
  phase = "done" =>
    \A kind \in {"default", "stale"} :
      LET users == [i \in 1..Len(snapshot) |-> normalizeUser(StoredAs(kind)[i])]
      IN  /\ users = dataset
          /\ createGraph(users, maxRatingsPerUser, maxAnimeAnimeEdges).graph = graph

\* C30 witness: a graph with edges of nonzero weight was built from a
\* snapshot of stale scores, which differs from the same snapshot with the
\* default scores.
C30_Witness ==
  /\ phase = "done"
  /\ snapshot = StoredAs("stale")
  /\ snapshot # StoredAs("default")
  /\ \E i \in 1..Len(graph.edges) : graph.edges[i].weight # 0

\* ------------------------------------------------------------------------
\* Collector (collect-mal, second part of jikan.ts)
\* ------------------------------------------------------------------------
\* The comma-separated parts of the users option: one name, two names, one
\* name twice in two spellings.
CollectUsers ==
  { << <<"A", " ">> >>, << <<" ", "b">>, <<"a">> >>, << <<"a">>, <<"A">> >> }

\* The lists fetchMalRatings gives the collector: up to three entries, an
\* item possibly twice, a title possibly other than the stored one.
CollectEntries ==
  { [anime_id |-> 1, anime_title |-> TitleOf(1), score |-> 1],
    [anime_id |-> 1, anime_title |-> <<"renamed", 1>>, score |-> 2],
    [anime_id |-> 2, anime_title |-> TitleOf(2), score |-> 1],
    [anime_id |-> 2, anime_title |-> TitleOf(2), score |-> 2],
    [anime_id |-> 3, anime_title |-> TitleOf(3), score |-> 2] }
CollectLists == SeqsUpTo(CollectEntries, Cardinality(GraphAnime))

\* ---- lines 126-162: the options are read and the store is opened ----
CollectInit ==
  /\ userNames \in { splitCsv(parts) : parts \in CollectUsers }
  /\ collectAt = 1 /\ collectPc = "loop"
  /\ store \in InitialStores
  /\ given = [raw |-> <<>>, title |-> <<>>]
  /\ CrawlerIdle /\ RetryIdle /\ GraphIdle /\ RatingsIdle

\* ---- lines 165-172: the list of one username is fetched and ingested ----
\* Nothing catches an error: the finally closes the store and the run ends.
CollectUser ==
  /\ collectPc = "loop" /\ collectAt <= Len(userNames)
  /\ LET anonymizedId == anonymizeUsername(userNames[collectAt], "s1")
     IN  \/ \* fetchMalRatings throws
            /\ collectPc' = "crashed"
            /\ UNCHANGED <<store, given, collectAt>>
         \/ \E list \in CollectLists :
              \/ \* a statement of insertTx throws after k others
                 /\ \E k \in 0..(2 * Len(list)) :
                      store' = rollback(store, insertTxPrefix(store, anonymizedId, list, k))
                 /\ collectPc' = "crashed"
                 /\ UNCHANGED <<given, collectAt>>
              \/ /\ store' = insertTx(store, anonymizedId, list)
                 /\ LET items == { list[i].anime_id : i \in 1..Len(list) }
                        last(a) == list[CHOOSE i \in 1..Len(list) :
                                          /\ list[i].anime_id = a
                                          /\ \A j \in (i + 1)..Len(list) : list[j].anime_id # a]
                        keys == { <<anonymizedId, a>> : a \in items }
                    IN  given' =
                          [raw |-> [k \in (DOMAIN given.raw) \cup keys |->
                                      IF k \in keys THEN last(k[2]).score ELSE given.raw[k]],
                           title |-> [a \in (DOMAIN given.title) \cup items |->
                                        IF a \in items THEN last(a).anime_title
                                        ELSE given.title[a]]]
                 /\ collectAt' = collectAt + 1
                 /\ UNCHANGED collectPc
  /\ UNCHANGED <<crawlerVars, retryVars, graphVars, ratingsVars, userNames>>

\* ---- lines 174-177: after the last username ----
CollectRecompute ==
  /\ collectPc = "loop" /\ collectAt > Len(userNames)
  /\ store' = recomputeNormalizedScores(store)
  /\ collectPc' = "done"
  /\ UNCHANGED <<crawlerVars, retryVars, graphVars, ratingsVars, userNames, collectAt, given>>

CollectNext == CollectUser \/ CollectRecompute

SpecCollect == CollectInit /\ [][CollectNext]_vars

\* ------------------------------------------------------------------------
\* Properties of the store under the collector
\* ------------------------------------------------------------------------
\* normalized_score is kept multiplied by NormScale.

RECURSIVE TotalOf(_, _, _)
TotalOf(d, keys, field) ==
  IF keys = {} THEN 0
  ELSE LET k == CHOOSE x \in keys : TRUE
       IN  d.ratings[k][field] + TotalOf(d, keys \ {k}, field)

\* How far n times the normalized score of the rating k is from n times
\* (raw minus the mean of the raw scores of its user), n the number of
\* ratings of the user.
Deviation(d, k) ==
  LET mine == { x \in DOMAIN d.ratings : x[1] = k[1] }
      n    == Cardinality(mine)
  IN  n * d.ratings[k].normalized_score
        - NormScale * (n * d.ratings[k].raw_score - TotalOf(d, mine, "raw_score"))

Magnitude(x) == IF x < 0 THEN 0 - x ELSE x

C24_UpsertOverwrites ==
  [][ /\ \A k \in DOMAIN given'.raw :
           k \in DOMAIN store'.ratings /\ store'.ratings[k].raw_score = given'.raw[k]
      /\ \A a \in DOMAIN given'.title : store'.anime[a] = given'.title[a]
      /\ DOMAIN store'.ratings = (DOMAIN store.ratings) \cup (DOMAIN given'.raw)
      /\ \A k \in DOMAIN store'.ratings : k[1] \in store'.users /\ k[2] \in DOMAIN store'.anime
      /\ collectPc' # "done" =>
           \A k \in DOMAIN store'.ratings :
             store'.ratings[k].normalized_score =
               IF k \in DOMAIN store.ratings THEN store.ratings[k].normalized_score ELSE 0
      /\ collectPc' = "done" =>
           \A k \in DOMAIN store'.ratings :
             store'.ratings[k].raw_score = store.ratings[k].raw_score
    ]_vars

\* C24 witness: before the recompute, a stored rating whose raw score an
\* ingestion replaced still holds the normalized score of the old raw
\* scores, and its item has the new title.
C24_Witness ==
  /\ collectPc = "loop"
  /\ \E k \in DOMAIN given.raw :
       /\ store.ratings[k].normalized_score # 0
       /\ 2 * Magnitude(Deviation(store, k))
            > Cardinality({ x \in DOMAIN store.ratings : x[1] = k[1] })
       /\ store.anime[k[2]] = <<"renamed", k[2]>>

\* ------------------------------------------------------------------------
\* Rating pagination: fetchMalRatings (mal.ts)
\* ------------------------------------------------------------------------
\* The list the server holds for the user: its length, which entries have a
\* score (all, every second one, none), and the most entries the server puts
\* in a page.
MalLists ==
  [n : {0, 2, MAL_PAGE_SIZE - 1, MAL_PAGE_SIZE, MAL_PAGE_SIZE + 1,
        2 * MAL_PAGE_SIZE, 2 * MAL_PAGE_SIZE + 2},
   scores : {"all", "some", "none"},
   pageSize : {MAL_PAGE_SIZE, MAL_PAGE_SIZE + 1}]

\* The entry at place i of the list, as load.json gives it.
malEntry(list, i) ==
  [anime_id |-> i,
   anime_title |-> TitleOf(i),
   score |-> IF list.scores = "all" \/ (list.scores = "some" /\ i % 2 = 0) THEN 7 ELSE 0,
   status |-> 2]

\* The page the server gives for ?offset=o
serverPage(list, o) ==
  [i \in 1..(IF list.n - o < 0 THEN 0 ELSE Min2(list.n - o, list.pageSize)) |->
     malEntry(list, o + i)]

\* for (const entry of page) if (entry.score > 0) ratings.push({anime_id,
\* anime_title, score})
pushRated(rs, malPage) ==
  LET rated == SelectSeq(malPage, LAMBDA entry : entry.score > 0)
  IN  rs \o [i \in 1..Len(rated) |-> [anime_id |-> rated[i].anime_id,
                                       anime_title |-> rated[i].anime_title,
                                       score |-> rated[i].score]]

\* if (page.length < MAL_PAGE_SIZE) break;   (variant: no such break)
shortPageNever(malPage) == FALSE
shortPage(malPage) == Len(malPage) < MAL_PAGE_SIZE

RatingsInit ==
  /\ malList \in MalLists
  /\ offset = 0 /\ fetched = <<>> /\ offsets = <<>> /\ received = <<>>
  /\ ratingsCall = "running" /\ returned = Undefined
  /\ CrawlerIdle /\ RetryIdle /\ GraphIdle /\ CollectIdle

\* ---- mal.ts 17-49: one pass of the loop, the page request answered ----
fetchMalRatings ==
  /\ ratingsCall = "running"
  /\ LET malPage == serverPage(malList, offset)
     IN  /\ offsets' = Append(offsets, offset)
         /\ received' = Append(received, malPage)
         /\ IF Len(malPage) = 0
            THEN /\ ratingsCall' = "returned"
                 /\ returned' = fetched
                 /\ UNCHANGED <<fetched, offset>>
            ELSE /\ fetched' = pushRated(fetched, malPage)
                 /\ IF shortPage(malPage)
                    THEN /\ ratingsCall' = "returned"
                         /\ returned' = fetched'
                         /\ UNCHANGED offset
                    ELSE /\ offset' = offset + Len(malPage)
                         /\ UNCHANGED <<ratingsCall, returned>>
  /\ UNCHANGED <<crawlerVars, retryVars, graphVars, collectVars, malList>>

\* ---- mal.ts 24: fetchMalPage throws, nothing catches it ----
PageThrows ==
  /\ ratingsCall = "running"
  /\ offsets' = Append(offsets, offset)
  /\ ratingsCall' = "threw"
  /\ UNCHANGED <<crawlerVars, retryVars, graphVars, collectVars, malList, offset, fetched,
                 received, returned>>

RatingsNext == fetchMalRatings \/ PageThrows

SpecRatings == RatingsInit /\ [][RatingsNext]_vars

\* ------------------------------------------------------------------------
\* Properties of the rating pagination
\* ------------------------------------------------------------------------
RECURSIVE LengthsOf(_)
LengthsOf(ps) == IF ps = <<>> THEN 0 ELSE Len(Head(ps)) + LengthsOf(Tail(ps))

\* The entries with a score > 0 of the pages, in page order, as
\* (anime_id, anime_title, score).
RECURSIVE Flat(_)
Flat(ps) == IF ps = <<>> THEN <<>> ELSE Head(ps) \o Flat(Tail(ps))

RatedOf(ps) ==
  LET kept == SelectSeq(Flat(ps), LAMBDA e : e.score > 0)
  IN  [k \in 1..Len(kept) |-> [anime_id |-> kept[k].anime_id,
                               anime_title |-> kept[k].anime_title,
                               score |-> kept[k].score]]

\* C25: the first request has offset 0 and each next one the sum of the
\* lengths of the pages received so far; every page before the last one
\* received has 300 entries or more; a call that returned has received as
\* its last page one that is empty or shorter than 300, has requested
\* nothing after it, and returns the entries with score > 0 of the received
\* pages in page order; a call whose page request failed has thrown and
\* returned no list.
C25_Pagination ==
  /\ \A i \in 1..Len(offsets) :
       /\ i - 1 <= Len(received)
       /\ offsets[i] = LengthsOf(SubSeq(received, 1, i - 1))
  /\ \A j \in 1..(Len(received) - 1) : Len(received[j]) >= 300
  /\ ratingsCall = "running" =>
       /\ Len(offsets) = Len(received)
       /\ \A j \in 1..Len(received) : Len(received[j]) >= 300
       /\ returned = <<"undefined">>
  /\ ratingsCall = "returned" =>
       /\ Len(offsets) = Len(received)
       /\ Len(received) >= 1
       /\ Len(received[Len(received)]) < 300
       /\ returned = RatedOf(received)
  /\ ratingsCall = "threw" =>
       /\ Len(offsets) = Len(received) + 1
       /\ returned = <<"undefined">>

\* C25 witness: a list of 602 entries, every second one scored, came in
\* pages of 300, 300 and 2 at the offsets 0, 300, 600, and 301 ratings were
\* returned.
C25_Witness ==
  /\ ratingsCall = "returned"
  /\ offsets = <<0, 300, 600>>
  /\ Len(received[3]) = 2
  /\ Len(returned) = 301

====
